---- MODULE Spec2Model ----
(***************************************************************************)
(* A model of the LQUIC protocol core: the packet codec (internal/packet), *)
(* the per-connection state machine (internal/connection), the handshake   *)
(* state (internal/crypto) and the flow controller (internal/flowcontrol). *)
(*                                                                         *)
(* Four specifications share the variables below:                          *)
(*   SpecCodec   Pack / Unpack applied to packets and to damaged wires     *)
(*   SpecFlow    a FlowController driven by arbitrary call sequences       *)
(*   SpecCrypto  a CryptoSetup driven by arbitrary call sequences          *)
(*   Spec        a Connection whose HandlePacket and Close calls run       *)
(*               concurrently, one atomic step per guarded section         *)
(***************************************************************************)
EXTENDS Integers, Sequences, FiniteSets, TLC

(***************************************************************************)
(* Fixed-width integers.  TLC's integers are 32-bit, so a uint64 is kept   *)
(* as four 16-bit limbs, most significant first, and a uint32 as two.      *)
(***************************************************************************)
LimbBase == 256 * 256

\* uint64(n) for a small non-negative n (n < 2^31)
U64(n) == <<0, 0, n \div LimbBase, n % LimbBase>>

U64Max == <<LimbBase - 1, LimbBase - 1, LimbBase - 1, LimbBase - 1>>

\* carry out of limb i (1 = most significant) when adding a, b and cin at limb 4
RECURSIVE CarryInto(_, _, _, _)
CarryInto(a, b, i, cin) ==
    IF i = 4 THEN cin
    ELSE (a[i + 1] + b[i + 1] + CarryInto(a, b, i + 1, cin)) \div LimbBase

\* a + b + cin, wrapped to 64 bits (Go's unsigned and two's-complement addition)
AddC64(a, b, cin) ==
    [i \in 1..4 |-> (a[i] + b[i] + CarryInto(a, b, i, cin)) % LimbBase]

Add64(a, b) == AddC64(a, b, 0)

\* a - b wrapped to 64 bits: a + ~b + 1
Sub64(a, b) == AddC64(a, [i \in 1..4 |-> (LimbBase - 1) - b[i]], 1)

\* the carry out of the 64-bit addition a + b: the true sum is 2^64 or more
Overflows64(a, b) == (a[1] + b[1] + CarryInto(a, b, 1, 0)) \div LimbBase = 1

RECURSIVE LtFrom(_, _, _)
LtFrom(a, b, i) ==
    IF i > Len(a) THEN FALSE
    ELSE IF a[i] # b[i] THEN a[i] < b[i]
    ELSE LtFrom(a, b, i + 1)

\* unsigned comparisons
Lt64(a, b) == LtFrom(a, b, 1)

Le64(a, b) == ~Lt64(b, a)

\* int(x) < 0 for the int64 carrying the same bits
Neg64(a) == a[1] >= LimbBase \div 2

\* the value of a uint64 known to be small
Small64(a) == a[3] * LimbBase + a[4]

(***************************************************************************)
(* encoding/binary, big endian                                             *)
(***************************************************************************)
Byte == 0..255

\* binary.BigEndian.PutUint32 / PutUint64: the bytes of the limbs, high byte first
PutLimbs(v) ==
    [i \in 1..(2 * Len(v)) |->
        IF i % 2 = 1 THEN v[(i + 1) \div 2] \div 256 ELSE v[(i + 1) \div 2] % 256]

PutUint32(v) == PutLimbs(v)

PutUint64(v) == PutLimbs(v)

\* binary.BigEndian.Uint32 / Uint64 of the first 4 / 8 bytes of b
GetLimbs(b, n) == [i \in 1..n |-> b[2 * i - 1] * 256 + b[2 * i]]

Uint32(b) == GetLimbs(b, 2)

Uint64(b) == GetLimbs(b, 4)

\* Go's data[i] and data[lo:hi] (0-based, hi exclusive) on a TLA+ sequence
At(data, i) == data[i + 1]

Slice(data, lo, hi) == SubSeq(data, lo + 1, hi)

(***************************************************************************)
(* protocol: packet types and the supported version                        *)
(***************************************************************************)
PacketTypeInitial == 1
PacketTypeHandshake == 2
PacketTypeOneRTT == 3
PacketTypeRetry == 4

ValidPacketTypes ==
    {PacketTypeInitial, PacketTypeHandshake, PacketTypeOneRTT, PacketTypeRetry}

Version == 1

(***************************************************************************)
(* packet: Pack and Unpack                                                 *)
(***************************************************************************)
\* the least length Unpack and Header.Unpack accept
MinHeaderLen == 22

\* byte(len(id)): the length byte Pack writes
LenByte(id) == Len(id) % 256

PackOk(bytes) == [ok |-> TRUE, bytes |-> bytes]

PackErr == [ok |-> FALSE, bytes |-> <<>>]

\* the header fields as Header.Pack and Packet.Pack both write them
HeaderBytes(h) ==
    <<h.Type>> \o PutUint32(h.Version)
        \o <<LenByte(h.DestConnID)>> \o h.DestConnID
        \o <<LenByte(h.SrcConnID)>> \o h.SrcConnID
        \o PutUint64(h.PacketNumber)

\* a faulty Pack that leaves out the payload length field
PacketPackNoLen(p) ==
    IF p.Header.Type \notin ValidPacketTypes THEN PackErr
    ELSE PackOk(HeaderBytes(p.Header) \o p.Payload)

\* (p *Packet) Pack
PacketPack(p) ==
    IF p.Header.Type \notin ValidPacketTypes THEN PackErr
    ELSE PackOk(HeaderBytes(p.Header) \o PutUint64(U64(Len(p.Payload))) \o p.Payload)

UnpackErr(field) == [kind |-> "err", field |-> field]

UnpackPanic(what) == [kind |-> "panic", field |-> what]

UnpackOk(p) == [kind |-> "ok", packet |-> p]

\* the last two steps of Unpack: the payload length and the payload.
\* off is the offset of the payload; hi is off + int(payloadLen) in int64.
UnpackPayload(data, hdr, off, payloadLen) ==
    LET hi == Add64(U64(off), payloadLen)
    IN  IF ~Neg64(hi) /\ Lt64(U64(Len(data)), hi) THEN UnpackErr("payload")
        ELSE IF Neg64(hi) \/ Lt64(hi, U64(off))
             THEN UnpackPanic("slice bounds out of range")
        ELSE UnpackOk([Header |-> hdr, Payload |-> Slice(data, off, Small64(hi))])

\* Unpack from the source connection ID on; off is the offset of its length byte
UnpackSrc(data, type, version, dest, off) ==
    IF off >= Len(data) THEN UnpackPanic("index out of range")
    ELSE
    LET srcLen == At(data, off)
        o1 == off + 1
        o2 == o1 + srcLen
        o3 == o2 + 8
        o4 == o3 + 8
    IN  IF o2 > Len(data) THEN UnpackErr("srcID")
        ELSE IF o3 > Len(data) THEN UnpackErr("packetNumber")
        ELSE IF o4 > Len(data) THEN UnpackErr("payloadLength")
        ELSE UnpackPayload(data,
                 [Type |-> type, Version |-> version, DestConnID |-> dest,
                  SrcConnID |-> Slice(data, o1, o2),
                  PacketNumber |-> Uint64(Slice(data, o2, o3))],
                 o4, Uint64(Slice(data, o3, o4)))

\* func Unpack(data []byte) (*Packet, error)
Unpack(data) ==
    IF Len(data) < MinHeaderLen THEN UnpackErr("short")
    ELSE
    LET destLen == At(data, 5)
    IN  IF 6 + destLen > Len(data) THEN UnpackErr("destID")
        ELSE UnpackSrc(data, At(data, 0), Uint32(Slice(data, 1, 5)),
                       Slice(data, 6, 6 + destLen), 6 + destLen)

\* a faulty Header.Pack that does not look at the type
HeaderPackAnyType(h) == PackOk(HeaderBytes(h))

\* (h *Header) Pack
HeaderPack(h) ==
    IF h.Type \notin ValidPacketTypes THEN PackErr ELSE PackOk(HeaderBytes(h))

HeaderOk(h) == [kind |-> "ok", header |-> h]

\* Header.Unpack from the source connection ID on; off is the offset of its
\* length byte
HeaderUnpackSrc(data, type, version, dest, off) ==
    IF off >= Len(data) THEN UnpackPanic("index out of range")
    ELSE
    LET srcLen == At(data, off)
        o1 == off + 1
        o2 == o1 + srcLen
        o3 == o2 + 8
    IN  IF o2 > Len(data) THEN UnpackErr("srcID")
        ELSE IF o3 > Len(data) THEN UnpackErr("packetNumber")
        ELSE HeaderOk([Type |-> type, Version |-> version, DestConnID |-> dest,
                       SrcConnID |-> Slice(data, o1, o2),
                       PacketNumber |-> Uint64(Slice(data, o2, o3))])

\* (h *Header) Unpack(data []byte) error, and the header it leaves
HeaderUnpack(data) ==
    IF Len(data) < MinHeaderLen THEN UnpackErr("short")
    ELSE
    LET destLen == At(data, 5)
    IN  IF 6 + destLen > Len(data) THEN UnpackErr("destID")
        ELSE HeaderUnpackSrc(data, At(data, 0), Uint32(Slice(data, 1, 5)),
                             Slice(data, 6, 6 + destLen), 6 + destLen)

(***************************************************************************)
(* flowcontrol: the FlowController.  All four counts are uint64.           *)
(***************************************************************************)
\* func NewFlowController(initialWindowSize, maxWindowSize WindowSize)
NewFlowController(initialWindowSize, maxWindowSize) ==
    [windowSize |-> initialWindowSize,
     bytesInFlight |-> U64(0),
     maxWindowSize |-> maxWindowSize,
     recvWindowSize |-> initialWindowSize,
     lastWindowUpdate |-> 0]

\* a faulty UpdateWindow that reclaims nothing
UpdateWindowNoReclaim(f, bytes, t) == [f EXCEPT !.lastWindowUpdate = t]

\* (f *FlowController) UpdateWindow, called at time t
UpdateWindow(f, bytes, t) ==
    [f EXCEPT !.bytesInFlight = Sub64(@, bytes), !.lastWindowUpdate = t]

\* (f *FlowController) UpdateRecvWindow
UpdateRecvWindow(f, bytes) ==
    LET grown == Add64(f.recvWindowSize, bytes)
    IN  [f EXCEPT !.recvWindowSize =
            IF Lt64(f.maxWindowSize, grown) THEN f.maxWindowSize ELSE grown]

\* (f *FlowController) CanSend
CanSend(f, bytes) == Le64(Add64(f.bytesInFlight, bytes), f.windowSize)

\* (f *FlowController) OnDataSent
OnDataSent(f, bytes) == [f EXCEPT !.bytesInFlight = Add64(@, bytes)]

\* (f *FlowController) GetWindowSize / GetBytesInFlight
GetWindowSize(f) == f.windowSize

GetBytesInFlight(f) == f.bytesInFlight

(***************************************************************************)
(* Byte strings of the handshake layer.  A payload can be longer than the  *)
(* 1 MiB flow window, so these []byte values are kept run-length encoded:  *)
(* a sequence of <<byte, count>> runs, count > 0, neighbouring runs of     *)
(* different bytes.  <<>> is the empty (and the nil) slice.                *)
(***************************************************************************)
BRep(b, n) == IF n = 0 THEN <<>> ELSE <<<<b, n>>>>

RECURSIVE BLen(_)
BLen(s) == IF s = <<>> THEN 0 ELSE Head(s)[2] + BLen(Tail(s))

\* append(s, t...)
BCat(s, t) ==
    IF s = <<>> THEN t
    ELSE IF t = <<>> THEN s
    ELSE IF s[Len(s)][1] = t[1][1]
         THEN SubSeq(s, 1, Len(s) - 1)
                  \o <<<<t[1][1], s[Len(s)][2] + t[1][2]>>>> \o Tail(t)
    ELSE s \o t

\* s[:n] and s[n:], for n <= len(s)
RECURSIVE BTake(_, _)
BTake(s, n) ==
    IF n = 0 \/ s = <<>> THEN <<>>
    ELSE IF Head(s)[2] >= n THEN <<<<Head(s)[1], n>>>>
    ELSE <<Head(s)>> \o BTake(Tail(s), n - Head(s)[2])

RECURSIVE BDrop(_, _)
BDrop(s, n) ==
    IF n = 0 \/ s = <<>> THEN s
    ELSE IF Head(s)[2] > n THEN <<<<Head(s)[1], Head(s)[2] - n>>>> \o Tail(s)
    ELSE BDrop(Tail(s), n - Head(s)[2])

(***************************************************************************)
(* crypto: the CryptoSetup                                                 *)
(***************************************************************************)
LevelInitial == 0
LevelHandshake == 1
LevelOneRTT == 2

\* a *tls.Config as the CryptoSetup reads it: nil or not, and whether its
\* Rand and ClientSessionCache are set
NilConfig == [present |-> FALSE, Rand |-> FALSE, ClientSessionCache |-> FALSE]

NoKey == [set |-> FALSE]

\* hkdfExtract(salt, ikm): HMAC-SHA256, a 32-byte value named by its inputs
hkdfExtract(salt, ikm) == [set |-> TRUE, salt |-> salt, ikm |-> ikm]

KeyLen(k) == IF k.set THEN 32 ELSE 0

\* func NewCryptoSetup(tlsConfig *tls.Config) *CryptoSetup
NewCryptoSetup(tlsConfig) ==
    [tlsConfig |-> tlsConfig,
     level |-> LevelInitial,
     handshakeComplete |-> FALSE,
     handshakeData |-> <<>>,
     sessionTicket |-> <<>>,
     zeroRTTKey |-> NoKey]

\* a faulty HandleCryptoFrame that appends before it looks at the level
HandleCryptoFrameAppendFirst(c, data, level) ==
    [err |-> level < c.level,
     cs |-> [c EXCEPT !.handshakeData = BCat(@, data)]]

\* a faulty HandleCryptoFrame that takes over the level of every frame
HandleCryptoFrameAdoptLevel(c, data, level) ==
    [err |-> FALSE,
     cs |-> [c EXCEPT !.handshakeData = BCat(@, data), !.level = level]]

\* (c *CryptoSetup) HandleCryptoFrame: the error flag and the CryptoSetup after
HandleCryptoFrame(c, data, level) ==
    IF level < c.level THEN [err |-> TRUE, cs |-> c]
    ELSE [err |-> FALSE, cs |-> [c EXCEPT !.handshakeData = BCat(@, data)]]

\* a faulty SetHandshakeComplete that leaves the level alone
SetHandshakeCompleteKeepLevel(c) == [c EXCEPT !.handshakeComplete = TRUE]

\* (c *CryptoSetup) SetHandshakeComplete
SetHandshakeComplete(c) ==
    [c EXCEPT !.handshakeComplete = TRUE, !.level = LevelOneRTT]

\* a faulty HandshakeComplete that always reports completion
HandshakeCompleteAlways(c) == TRUE

\* (c *CryptoSetup) HandshakeComplete
HandshakeComplete(c) == c.handshakeComplete

\* (c *CryptoSetup) GetCurrentLevel
GetCurrentLevel(c) == c.level

\* a faulty TryZeroRTT that does not look at the ticket id
TryZeroRTTAnyID(c, ticketID) ==
    IF c.handshakeData = <<>>
    THEN [ok |-> FALSE, key |-> NoKey, cs |-> c]
    ELSE LET zeroRTTKey ==
                 hkdfExtract(<<"tls13 0-rtt ", c.handshakeData>>, ticketID)
         IN  [ok |-> TRUE, key |-> zeroRTTKey,
              cs |-> [c EXCEPT !.zeroRTTKey = zeroRTTKey]]

\* a faulty UpdateSessionTicket that does not ask for the handshake
UpdateSessionTicketAnyTime(c, ticket) ==
    [err |-> FALSE, cs |-> [c EXCEPT !.sessionTicket = ticket]]

\* (c *CryptoSetup) TryZeroRTT: (ok, key) and the CryptoSetup after
TryZeroRTT(c, ticketID) ==
    IF BLen(ticketID) = 0 \/ c.handshakeData = <<>>
    THEN [ok |-> FALSE, key |-> NoKey, cs |-> c]
    ELSE LET zeroRTTKey ==
                 hkdfExtract(<<"tls13 0-rtt ", c.handshakeData>>, ticketID)
         IN  IF KeyLen(zeroRTTKey) = 0
             THEN [ok |-> FALSE, key |-> NoKey, cs |-> c]
             ELSE [ok |-> TRUE, key |-> zeroRTTKey,
                   cs |-> [c EXCEPT !.zeroRTTKey = zeroRTTKey]]

\* c.tlsConfig.Rand.Read(buf) with len(buf) = n: r says whether the read fails
\* and which byte fills the buffer
RandRead(r, n) == [err |-> r.err, bytes |-> BRep(r.byte, n)]

\* the []byte results of GetCryptoData: nil, a key, or a run-time panic
NilBytes == [kind |-> "nil"]

KeyBytes(k) == [kind |-> "key", key |-> k]

CryptoPanic == [kind |-> "panic"]

\* (c *CryptoSetup) generateInitialSecrets; r is what Rand.Read does
generateInitialSecrets(c, r) ==
    IF ~c.tlsConfig.present THEN NilBytes
    ELSE IF ~c.tlsConfig.ClientSessionCache THEN NilBytes
    ELSE IF ~c.tlsConfig.Rand THEN CryptoPanic
    ELSE IF RandRead(r, 20).err THEN NilBytes
    ELSE KeyBytes(hkdfExtract("initialSalt", RandRead(r, 20).bytes))

\* (c *CryptoSetup) generateHandshakeSecrets
generateHandshakeSecrets(c) ==
    IF ~c.tlsConfig.present \/ c.handshakeData = <<>> THEN NilBytes
    ELSE IF BLen(c.handshakeData) < 64 THEN NilBytes
    ELSE LET keyMaterial == BCat(BTake(c.handshakeData, 32),
                                 BTake(BDrop(c.handshakeData, 32), 32))
             handshakeSecret == hkdfExtract(<<"sha256", keyMaterial>>, "tls13 hs")
         IN  KeyBytes(hkdfExtract(handshakeSecret, "traffic"))

\* a faulty generateApplicationSecrets that does not ask for the handshake
generateApplicationSecretsEarly(c) ==
    IF c.handshakeData = <<>> THEN NilBytes
    ELSE IF BLen(c.handshakeData) < 96 THEN NilBytes
    ELSE LET masterSecret == BDrop(c.handshakeData, BLen(c.handshakeData) - 32)
             appSecret == hkdfExtract(masterSecret, "tls13 ap traffic")
         IN  KeyBytes(hkdfExtract(appSecret, "quic key"))

\* (c *CryptoSetup) generateApplicationSecrets
generateApplicationSecrets(c) ==
    IF ~c.handshakeComplete \/ c.handshakeData = <<>> THEN NilBytes
    ELSE IF BLen(c.handshakeData) < 96 THEN NilBytes
    ELSE LET masterSecret == BDrop(c.handshakeData, BLen(c.handshakeData) - 32)
             appSecret == hkdfExtract(masterSecret, "tls13 ap traffic")
         IN  KeyBytes(hkdfExtract(appSecret, "quic key"))

\* (c *CryptoSetup) GetCryptoData: what it returns; it writes nothing
GetCryptoData(c, level, r) ==
    IF ~c.tlsConfig.present THEN NilBytes
    ELSE IF level = LevelInitial THEN generateInitialSecrets(c, r)
    ELSE IF level = LevelHandshake THEN generateHandshakeSecrets(c)
    ELSE IF level = LevelOneRTT THEN generateApplicationSecrets(c)
    ELSE NilBytes

\* (c *CryptoSetup) UpdateSessionTicket: the error flag and the CryptoSetup after
UpdateSessionTicket(c, ticket) ==
    IF ~c.handshakeComplete THEN [err |-> TRUE, cs |-> c]
    ELSE [err |-> FALSE, cs |-> [c EXCEPT !.sessionTicket = ticket]]

\* (c *CryptoSetup) CompleteOneRTT: the error flag, the key and the CryptoSetup
\* after; r is what Rand.Read does
CompleteOneRTT(c, r) ==
    IF ~c.tlsConfig.present \/ ~c.tlsConfig.Rand \/ ~c.handshakeComplete
    THEN [err |-> TRUE, key |-> NoKey, cs |-> c]
    ELSE IF RandRead(r, 32).err THEN [err |-> TRUE, key |-> NoKey, cs |-> c]
    ELSE LET ticket == RandRead(r, 32).bytes
         IN  [err |-> FALSE,
              key |-> hkdfExtract(<<"tls13 resumption ", c.handshakeData>>, ticket),
              cs |-> [c EXCEPT !.sessionTicket = ticket]]

\* a key handed to SetZeroRTTKey: nil, or these bytes
NilKey == [nil |-> TRUE, bytes |-> <<>>]

RawKey(bytes) == [nil |-> FALSE, bytes |-> bytes]

\* (c *CryptoSetup) SetZeroRTTKey: the error flag and the CryptoSetup after
SetZeroRTTKey(c, key) ==
    IF key.nil THEN [err |-> TRUE, cs |-> c]
    ELSE [err |-> FALSE, cs |-> [c EXCEPT !.zeroRTTKey = [set |-> TRUE, raw |-> key.bytes]]]

(***************************************************************************)
(* connection: the IDManager.  activeIDs is a map keyed by the bytes of    *)
(* the id, so it is the set of the ids it holds.                           *)
(***************************************************************************)
\* func NewIDManager(generator *IDGenerator, maxActiveIDs int) *IDManager
NewIDManager(maxActiveIDs) == [activeIDs |-> {}, maxActiveIDs |-> maxActiveIDs]

\* a faulty capacity test that lets one more entry in
IDManagerFullOffByOne(m) == Cardinality(m.activeIDs) > m.maxActiveIDs

\* AddConnectionID: if len(m.activeIDs) >= m.maxActiveIDs
IDManagerFull(m) == Cardinality(m.activeIDs) >= m.maxActiveIDs

\* AddConnectionID: m.activeIDs[string(id)] = id
InsertID(m, id) == [m EXCEPT !.activeIDs = @ \cup {id}]

\* (m *IDManager) AddConnectionID: the error flag and the manager after
AddConnectionID(m, id) ==
    IF IDManagerFull(m) THEN [err |-> TRUE, m |-> m]
    ELSE [err |-> FALSE, m |-> InsertID(m, id)]

\* (m *IDManager) RemoveConnectionID
RemoveConnectionID(m, id) == [m EXCEPT !.activeIDs = @ \ {id}]

\* (m *IDManager) GetActiveIDs
GetActiveIDs(m) == m.activeIDs

(***************************************************************************)
(* server: the connections map of the Server, keyed by destination         *)
(* connection id; a Connection object is named by its position in the      *)
(* order of creation.                                                      *)
(***************************************************************************)
DefaultMaxConnections == 1000

NoConnections == [k \in {} |-> 0]

\* New: a MaxConnections of zero or less is replaced by the default
NewServer(maxConnections) ==
    [MaxConnections |-> IF maxConnections <= 0 THEN DefaultMaxConnections
                        ELSE maxConnections,
     connections |-> NoConnections]

\* conn, exists := s.connections[connKey]; conn is 0 (nil) when absent
LookupConn(s, connKey) ==
    IF connKey \in DOMAIN s.connections THEN s.connections[connKey] ELSE 0

\* a faulty capacity test that lets one more entry in
ServerFullOffByOne(s) == Cardinality(DOMAIN s.connections) > s.MaxConnections

\* len(s.connections) >= s.config.MaxConnections
ServerFull(s) == Cardinality(DOMAIN s.connections) >= s.MaxConnections

\* s.connections[connKey] = conn
StoreConn(s, connKey, conn) ==
    [s EXCEPT !.connections =
        [k \in DOMAIN s.connections \cup {connKey} |->
            IF k = connKey THEN conn ELSE s.connections[k]]]

(***************************************************************************)
(* crypto: the SessionManager.  Times are in hours.                        *)
(***************************************************************************)
\* NewSessionManager: ticketValidity is 24 hours
TicketValidity == 24

NoTickets == [id \in {} |-> 0]

NewSessionManager == [tickets |-> NoTickets, ticketValidity |-> TicketValidity]

\* a faulty expiry test that takes the moment of expiry as expired
ExpiredAtExpiry(t, ticket) == t >= ticket.ExpiresAt

\* time.Now().After(ticket.ExpiresAt) at time t
Expired(t, ticket) == t > ticket.ExpiresAt

\* the ticket CreateTicket makes at time t from the random id and key
NewTicket(m, id, key, t) ==
    [ID |-> id, SessionKey |-> key, CreatedAt |-> t, ExpiresAt |-> t + m.ticketValidity]

\* (sm *SessionManager) CreateTicket: sm.tickets[string(id)] = ticket
CreateTicket(m, id, key, t) ==
    LET ticket == NewTicket(m, id, key, t)
    IN  [m EXCEPT !.tickets =
            [k \in DOMAIN m.tickets \cup {id} |->
                IF k = id THEN ticket ELSE m.tickets[k]]]

NilTicket == [nil |-> TRUE]

\* (sm *SessionManager) GetTicket at time t
GetTicket(m, id, t) ==
    IF id \notin DOMAIN m.tickets \/ Expired(t, m.tickets[id]) THEN NilTicket
    ELSE m.tickets[id]

\* (sm *SessionManager) RemoveExpiredTickets at time t
RemoveExpiredTickets(m, t) ==
    [m EXCEPT !.tickets =
        [k \in {i \in DOMAIN m.tickets : ~Expired(t, m.tickets[i])} |-> m.tickets[k]]]

(***************************************************************************)
(* The state.  Each specification drives its own component and leaves the  *)
(* other components' variables as Init sets them.                          *)
(***************************************************************************)
VARIABLES
    pkt,        \* codec: the packet handed to Pack
    wire,       \* codec: the bytes handed to Unpack
    damage,     \* codec: what happened to the wire after Pack
    decoded,    \* codec: what Unpack returned
    phase,      \* codec: position in pack / damage / unpack
    fc,         \* the FlowController
    sendCheck,  \* flow: the last CanSend call and what it returned
    flowCalls,  \* flow: calls made so far
    cs,         \* the CryptoSetup
    zeroTry,    \* crypto: the last TryZeroRTT call, what it returned, the
                \* CryptoSetup before and after it, and whether an earlier
                \* TryZeroRTT call had returned false
    accepted,   \* crypto: per ticket id, when TryZeroRTT last succeeded (-1: never)
    cryptoCalls,\* crypto: calls made so far
    cryptoOp,   \* crypto: the last operation, its arguments, its error flag and
                \* the CryptoSetup it found
    now,        \* the clock, in seconds
    state,                  \* Connection.state
    packetNumberGenerator,  \* Connection.packetNumberGenerator
    closeOnce,  \* Connection.closeOnce: "fresh", "running" or "done"
    closeChan,  \* Connection.closeChan: "open" or "closed"
    closeRuns,  \* how often the function handed to closeOnce.Do has been run
    pc,         \* per thread: where it stands in HandlePacket or Close
    cur,        \* per thread: the packet its HandlePacket is working on
    ret,        \* per thread: what its call returned ("none": not yet)
    wrote,      \* per thread: its call has changed the connection so far
    hsAtCall,   \* per thread: handshakeComplete when its call began
    pnSeen,     \* per thread: the packet number its HandlePacket validated
    idm,        \* the IDManager
    idOp,       \* ids: the last call, its argument, its error flag, the manager
                \* it found, and whether the call before it freed an entry
    idCalls,    \* ids: calls made so far
    idThreads,  \* ids: per goroutine, its call and where it stands in it
    idFatal,    \* ids: the runtime has stopped the program (fatal error)
    srv,        \* the Server: config.MaxConnections and the connections map
    conns,      \* server: the Connection objects made so far; conns[i] is the
                \* destination id object i was made for
    dispatched, \* server: <<key, i>> when a packet for key went to object i
    handlers,   \* server: per handlePacket goroutine, its datagram, its local
                \* conn (0: nil) and where it stands
    client,     \* the Client: whether c.connection is set
    cth,        \* client: per handlePacket goroutine, its packet, where it
                \* stands, whether it is inside a guarded section, and the
                \* guards it holds
    sm,         \* the SessionManager
    issued,     \* sessions: per ticket id, the ticket CreateTicket last made
    smOp        \* sessions: the last call, its argument and what it returned

codecVars == <<pkt, wire, damage, decoded, phase>>

flowVars == <<fc, sendCheck, flowCalls>>

cryptoVars == <<cs, zeroTry, accepted, cryptoCalls, cryptoOp>>

connVars ==
    <<state, packetNumberGenerator, closeOnce, closeChan, closeRuns, pc, cur, ret,
      wrote, hsAtCall, pnSeen>>

idVars == <<idm, idOp, idCalls, idThreads, idFatal>>

serverVars == <<srv, conns, dispatched, handlers>>

clientVars == <<client, cth>>

sessionVars == <<sm, issued, smOp>>

registryVars == <<idVars, serverVars, clientVars, sessionVars>>

vars == <<codecVars, flowVars, cryptoVars, connVars, registryVars, now>>

(***************************************************************************)
(* SpecCodec: Pack a packet, possibly damage the bytes, Unpack them.       *)
(***************************************************************************)
\* bounds of the codec inputs
LongPayloadLen == 300
FuzzMaxLen == 40

TypeSamples == 0..(PacketTypeRetry + 1)

VersionSamples == {<<0, Version>>, <<LimbBase - 1, 258>>}

\* connection IDs of n bytes; 255 is the longest a length byte can announce
IDLens == {0, 1, 4, 16, 255}

IDOf(n, k) == [i \in 1..n |-> (i + k) % 256]

PNSamples == {U64(1), <<258, 772, 1286, 1800>>, U64Max}

PayloadLens == {0, 3, LongPayloadLen}

PayloadOf(n) == [i \in 1..n |-> (7 * i) % 256]

PacketSamples ==
    {[Header |-> [Type |-> t, Version |-> v, DestConnID |-> IDOf(n1, 0),
                  SrcConnID |-> IDOf(n2, 100), PacketNumber |-> pn],
      Payload |-> PayloadOf(l)] :
        t \in TypeSamples, v \in VersionSamples, n1 \in IDLens, n2 \in IDLens,
        pn \in PNSamples, l \in PayloadLens}

FuzzBytes == {0, 1, 127, 255}

NoResult == [kind |-> "none"]

CodecIdle ==
    /\ pkt = [Header |-> [Type |-> 0, Version |-> <<0, 0>>, DestConnID |-> <<>>,
                          SrcConnID |-> <<>>, PacketNumber |-> U64(0)],
              Payload |-> <<>>]
    /\ wire = <<>>
    /\ damage = "none"
    /\ decoded = NoResult
    /\ phase = "off"

\* the connection's controller: NewConnection's 1 MiB and 16 MiB
InitialWindowSize == 1048576

MaxWindowSize == 16777216

FlowIdle ==
    /\ fc = NewFlowController(U64(InitialWindowSize), U64(MaxWindowSize))
    /\ sendCheck = [called |-> FALSE]
    /\ flowCalls = 0

\* ticket ids handed to TryZeroRTT; <<>> is the empty id
TicketIDs == {<<>>, BRep(1, 16), BRep(2, 16)}

CryptoIdle ==
    /\ cs = NewCryptoSetup(NilConfig)
    /\ zeroTry = [called |-> FALSE]
    /\ accepted = [id \in TicketIDs |-> -1]
    /\ cryptoCalls = 0
    /\ cryptoOp = [op |-> "none"]

\* the number of goroutines calling into one Connection, one call each
NumThreads == 2

Threads == 1..NumThreads

StateInitial == 0
StateHandshaking == 1
StateEstablished == 2
StateClosed == 3

NoPacket ==
    [Type |-> 0, Version |-> <<0, 0>>, PacketNumber |-> U64(0), Payload |-> <<>>]

ConnIdleWith(threads) ==
    /\ state = StateInitial
    /\ packetNumberGenerator = U64(0)
    /\ closeOnce = "fresh"
    /\ closeChan = "open"
    /\ closeRuns = 0
    /\ pc = [t \in threads |-> "idle"]
    /\ cur = [t \in threads |-> NoPacket]
    /\ ret = [t \in threads |-> "none"]
    /\ wrote = [t \in threads |-> FALSE]
    /\ hsAtCall = [t \in threads |-> FALSE]
    /\ pnSeen = [t \in threads |-> <<>>]

ConnIdle == ConnIdleWith(Threads)

\* bound: the goroutines calling into one IDManager
NumIDThreads == 2

IDThreads == 1..NumIDThreads

NoIDCall == [pc |-> "idle", id |-> <<>>, ret |-> "none"]

IDIdle ==
    /\ idm = NewIDManager(0)
    /\ idOp = [op |-> "none"]
    /\ idCalls = 0
    /\ idThreads = [t \in IDThreads |-> NoIDCall]
    /\ idFatal = FALSE

\* bound: the handlePacket goroutines running at once
NumHandlers == 3

Handlers == 1..NumHandlers

NoDatagram == [valid |-> FALSE, dest |-> <<>>, type |-> 0]

NoHandler == [pc |-> "idle", p |-> NoDatagram, conn |-> 0, ret |-> "none"]

ServerIdle ==
    /\ srv = NewServer(0)
    /\ conns = <<>>
    /\ dispatched = {}
    /\ handlers = [h \in Handlers |-> NoHandler]

\* bound: the handlePacket goroutines of the client running at once
NumClientThreads == 3

ClientThreads == 1..NumClientThreads

NoClientCall ==
    [pc |-> "idle", in |-> FALSE, held |-> {}, type |-> 0, pn |-> U64(0),
     ret |-> "none"]

ClientIdle ==
    /\ client = [connection |-> FALSE]
    /\ cth = [t \in ClientThreads |-> NoClientCall]

\* ticket ids CreateTicket draws
SessionIDs == {BRep(1, 16), BRep(2, 16)}

NoTicket == [ID |-> <<>>]

SessionIdle ==
    /\ sm = NewSessionManager
    /\ issued = [id \in SessionIDs |-> NoTicket]
    /\ smOp = [op |-> "none"]

RegistryIdle == IDIdle /\ ServerIdle /\ ClientIdle /\ SessionIdle

InitCodec ==
    /\ pkt \in PacketSamples
    /\ wire = <<>>
    /\ damage = "none"
    /\ decoded = NoResult
    /\ phase = "new"
    /\ FlowIdle
    /\ CryptoIdle
    /\ ConnIdle
    /\ RegistryIdle
    /\ now = 0

\* data, err := p.Pack()
DoPack ==
    /\ phase = "new"
    /\ LET r == PacketPack(pkt)
       IN  /\ wire' = r.bytes
           /\ phase' = IF r.ok THEN "packed" ELSE "packfail"
    /\ UNCHANGED <<pkt, damage, decoded, flowVars, cryptoVars, connVars, registryVars, now>>

\* the datagram arrives short
Truncate ==
    /\ phase = "packed"
    /\ damage = "none"
    /\ Len(wire) <= FuzzMaxLen
    /\ \E n \in 0..(Len(wire) - 1) : wire' = SubSeq(wire, 1, n)
    /\ damage' = "cut"
    /\ UNCHANGED <<pkt, decoded, phase, flowVars, cryptoVars, connVars, registryVars, now>>

\* the datagram arrives with one byte changed
Corrupt ==
    /\ phase = "packed"
    /\ damage = "none"
    /\ Len(wire) <= FuzzMaxLen
    /\ \E i \in 1..Len(wire), b \in FuzzBytes :
          /\ b # wire[i]
          /\ wire' = [wire EXCEPT ![i] = b]
    /\ damage' = "fuzzed"
    /\ UNCHANGED <<pkt, decoded, phase, flowVars, cryptoVars, connVars, registryVars, now>>

\* p, err := packet.Unpack(data)
DoUnpack ==
    /\ phase = "packed"
    /\ decoded' = Unpack(wire)
    /\ phase' = "unpacked"
    /\ UNCHANGED <<pkt, wire, damage, flowVars, cryptoVars, connVars, registryVars, now>>

NextCodec == DoPack \/ Truncate \/ Corrupt \/ DoUnpack

SpecCodec == InitCodec /\ [][NextCodec]_vars

(***************************************************************************)
(* SpecHeader: Pack a packet, or Pack its header and Unpack the header     *)
(* from the bytes.                                                         *)
(***************************************************************************)
\* data, err := h.Pack()
DoHeaderPack ==
    /\ phase = "new"
    /\ LET r == HeaderPack(pkt.Header)
       IN  /\ wire' = r.bytes
           /\ phase' = IF r.ok THEN "hpacked" ELSE "hpackfail"
    /\ UNCHANGED <<pkt, damage, decoded, flowVars, cryptoVars, connVars, registryVars, now>>

\* err := h.Unpack(data)
DoHeaderUnpack ==
    /\ phase = "hpacked"
    /\ decoded' = HeaderUnpack(wire)
    /\ phase' = "hunpacked"
    /\ UNCHANGED <<pkt, wire, damage, flowVars, cryptoVars, connVars, registryVars, now>>

NextHeader == DoPack \/ DoHeaderPack \/ DoHeaderUnpack

SpecHeader == InitCodec /\ [][NextHeader]_vars

(***************************************************************************)
(* Claims about the codec                                                  *)
(***************************************************************************)
\* C1: Unpack returns a packet or an error for every input; it never aborts
\* with an out-of-range index or slice access.
C1_UnpackNeverPanics == decoded.kind # "panic"

\* C2: for every packet with a valid type, connection IDs of 0 to 255 bytes
\* and any payload, Pack succeeds and Unpack of the packed bytes succeeds and
\* returns the same type, version, destID, srcID, packetNumber and payload.
C2_RoundTrip ==
    /\ phase = "packfail" => pkt.Header.Type \notin ValidPacketTypes
    /\ (phase = "unpacked" /\ damage = "none") => decoded = UnpackOk(pkt)

\* C2 witness: a packet with a 255-byte destination ID, an empty source ID and
\* a payload longer than one length byte came back from Unpack.
C2_Witness ==
    /\ phase = "unpacked"
    /\ damage = "none"
    /\ decoded.kind = "ok"
    /\ Len(pkt.Header.DestConnID) = 255
    /\ Len(pkt.Header.SrcConnID) = 0
    /\ Len(pkt.Payload) > 255
    /\ pkt.Header.PacketNumber = U64Max

\* C22: every packet that Unpack returns without error has a header type
\* among Initial, Handshake, OneRTT and Retry.
C22_UnpackedTypeValid ==
    decoded.kind = "ok" => decoded.packet.Header.Type \in ValidPacketTypes

\* C23: Packet.Pack and Header.Pack return an error and no bytes for every
\* header type outside Initial, Handshake, OneRTT and Retry, and succeed for
\* each of those four.
C23_PackChecksType ==
    /\ phase \in {"packfail", "hpackfail"} =>
          pkt.Header.Type \notin ValidPacketTypes /\ wire = <<>>
    /\ phase \in {"packed", "hpacked", "hunpacked"} =>
          pkt.Header.Type \in ValidPacketTypes /\ wire # <<>>

\* Header.Pack has refused a header whose type is one past Retry
C23_Witness ==
    /\ phase = "hpackfail"
    /\ pkt.Header.Type = PacketTypeRetry + 1

\* C24: for every header with a valid type and connection IDs of 0 to 255
\* bytes, Header.Unpack of the bytes of Header.Pack succeeds and gives back
\* the type, version, destID, srcID and packetNumber.
C24_HeaderRoundTrip ==
    phase = "hunpacked" => decoded = HeaderOk(pkt.Header)

(***************************************************************************)
(* SpecFlow: one FlowController under any sequence of calls.               *)
(***************************************************************************)
\* the number of calls explored
MaxFlowCalls == 4

\* (initialWindowSize, maxWindowSize) pairs handed to NewFlowController
WindowPairs ==
    {<<U64(1024), U64(4096)>>, <<U64(InitialWindowSize), U64(MaxWindowSize)>>,
     <<U64(4096), U64(1024)>>}

ByteCountSamples == {U64(0), U64(100), U64(500), U64(600), U64(2000), U64Max}

InitFlow ==
    /\ CodecIdle
    /\ CryptoIdle
    /\ ConnIdle
    /\ RegistryIdle
    /\ \E w \in WindowPairs : fc = NewFlowController(w[1], w[2])
    /\ sendCheck = [called |-> FALSE]
    /\ flowCalls = 0
    /\ now = 0

FlowCall ==
    /\ flowCalls < MaxFlowCalls
    /\ flowCalls' = flowCalls + 1
    /\ UNCHANGED <<codecVars, cryptoVars, connVars, registryVars, now>>

CallOnDataSent ==
    /\ FlowCall
    /\ \E n \in ByteCountSamples : fc' = OnDataSent(fc, n)
    /\ UNCHANGED sendCheck

CallUpdateWindow ==
    /\ FlowCall
    /\ \E n \in ByteCountSamples : fc' = UpdateWindow(fc, n, now)
    /\ UNCHANGED sendCheck

CallUpdateRecvWindow ==
    /\ FlowCall
    /\ \E n \in ByteCountSamples : fc' = UpdateRecvWindow(fc, n)
    /\ UNCHANGED sendCheck

CallCanSend ==
    /\ FlowCall
    /\ \E x \in ByteCountSamples :
          sendCheck' = [called |-> TRUE, bytes |-> x, inFlight |-> fc.bytesInFlight,
                        window |-> fc.windowSize, result |-> CanSend(fc, x)]
    /\ UNCHANGED fc

NextFlow == CallOnDataSent \/ CallUpdateWindow \/ CallUpdateRecvWindow \/ CallCanSend

SpecFlow == InitFlow /\ [][NextFlow]_vars

(***************************************************************************)
(* Claims about the flow controller                                        *)
(***************************************************************************)
\* C10: in every state reachable by OnDataSent and UpdateWindow calls with
\* 64-bit counts, CanSend(x) is true exactly when bytesInFlight + x, taken as
\* the true integer sum (no wrap-around at 2^64), is at most windowSize.
C10_CanSendTrueSum ==
    sendCheck.called =>
        (sendCheck.result <=>
            (/\ ~Overflows64(sendCheck.inFlight, sendCheck.bytes)
             /\ Le64(Add64(sendCheck.inFlight, sendCheck.bytes), sendCheck.window)))

\* C12: recvWindowSize <= maxWindowSize in every reachable FlowController
\* state, from construction with any (initialWindowSize, maxWindowSize) pair
\* through any UpdateRecvWindow calls.
C12_RecvWithinMax == Le64(fc.recvWindowSize, fc.maxWindowSize)

(***************************************************************************)
(* SpecCrypto: one CryptoSetup under any sequence of calls, with a clock.  *)
(***************************************************************************)
\* the number of calls explored, and how far the clock runs (seconds)
MaxCryptoCalls == 3
MaxTime == 11

ConfigSamples ==
    {NilConfig,
     [present |-> TRUE, Rand |-> FALSE, ClientSessionCache |-> FALSE],
     [present |-> TRUE, Rand |-> TRUE, ClientSessionCache |-> TRUE]}

\* crypto frames: empty, short, and long enough for the 64 and 96 byte tests
FrameSamples == {<<>>, BRep(1, 9), BRep(2, 64), BRep(3, 96)}

CryptoLevels == {LevelInitial, LevelHandshake, LevelOneRTT}

InitCrypto ==
    /\ CodecIdle
    /\ FlowIdle
    /\ ConnIdle
    /\ RegistryIdle
    /\ \E cfg \in ConfigSamples : cs = NewCryptoSetup(cfg)
    /\ zeroTry = [called |-> FALSE]
    /\ accepted = [id \in TicketIDs |-> -1]
    /\ cryptoCalls = 0
    /\ cryptoOp = [op |-> "none"]
    /\ now = 0

CryptoCall ==
    /\ cryptoCalls < MaxCryptoCalls
    /\ cryptoCalls' = cryptoCalls + 1
    /\ UNCHANGED <<codecVars, flowVars, connVars, registryVars, now, cryptoOp>>

CallHandleCryptoFrame ==
    /\ CryptoCall
    /\ \E data \in FrameSamples, level \in CryptoLevels :
          cs' = HandleCryptoFrame(cs, data, level).cs
    /\ UNCHANGED <<zeroTry, accepted>>

CallSetHandshakeComplete ==
    /\ CryptoCall
    /\ cs' = SetHandshakeComplete(cs)
    /\ UNCHANGED <<zeroTry, accepted>>

CallTryZeroRTT ==
    /\ CryptoCall
    /\ \E id \in TicketIDs :
          LET r == TryZeroRTT(cs, id)
          IN  /\ cs' = r.cs
              /\ zeroTry' = [called |-> TRUE, id |-> id, ok |-> r.ok, key |-> r.key,
                             at |-> now, last |-> accepted[id],
                             before |-> cs, after |-> r.cs,
                             rejected |-> zeroTry.called
                                          /\ (~zeroTry.ok \/ zeroTry.rejected)]
              /\ accepted' = IF r.ok THEN [accepted EXCEPT ![id] = now] ELSE accepted

\* time passes
Tick ==
    /\ now < MaxTime
    /\ now' = now + 1
    /\ UNCHANGED <<codecVars, flowVars, cryptoVars, connVars, registryVars>>

NextCrypto == CallHandleCryptoFrame \/ CallSetHandshakeComplete \/ CallTryZeroRTT \/ Tick

SpecCrypto == InitCrypto /\ [][NextCrypto]_vars

(***************************************************************************)
(* Claims about the CryptoSetup                                            *)
(***************************************************************************)
\* C7: 0-RTT anti-replay.  With a non-empty handshake buffer, a TryZeroRTT(T)
\* less than 10 seconds after a successful TryZeroRTT(T) with the same ticket
\* id returns (false, nil); one at or after 10 seconds succeeds.
C7_AntiReplay ==
    (zeroTry.called /\ zeroTry.last >= 0 /\ cs.handshakeData # <<>>) =>
        /\ zeroTry.at < zeroTry.last + 10 => (~zeroTry.ok /\ zeroTry.key = NoKey)
        /\ zeroTry.at >= zeroTry.last + 10 => zeroTry.ok

\* C28: TryZeroRTT returns (false, nil) and leaves the stored 0-RTT key as
\* it was when the ticket id is empty or no handshake data has been ingested;
\* with a non-empty ticket id and a non-empty handshake buffer it returns
\* (true, key) with a non-nil key, and that key is the stored one afterwards.
C28_ZeroRTTOutcome ==
    zeroTry.called =>
        IF BLen(zeroTry.id) = 0 \/ BLen(zeroTry.before.handshakeData) = 0
        THEN /\ ~zeroTry.ok
             /\ zeroTry.key = NoKey
             /\ zeroTry.after.zeroRTTKey = zeroTry.before.zeroRTTKey
        ELSE /\ zeroTry.ok
             /\ KeyLen(zeroTry.key) > 0
             /\ zeroTry.after.zeroRTTKey = zeroTry.key
             /\ zeroTry.after = [zeroTry.before EXCEPT !.zeroRTTKey = zeroTry.key]

\* a call with an empty ticket id was turned down after an earlier call had
\* stored a key, and the key is still there
C28_Witness ==
    /\ zeroTry.called
    /\ ~zeroTry.ok
    /\ BLen(zeroTry.id) = 0
    /\ zeroTry.before.zeroRTTKey # NoKey
    /\ cs.zeroRTTKey = zeroTry.before.zeroRTTKey

\* C29: 0-RTT rejection is sticky: once a TryZeroRTT call on a CryptoSetup
\* has returned (false, nil), every later TryZeroRTT call on it returns
\* (false, nil) too.
C29_RejectionSticky ==
    (zeroTry.called /\ zeroTry.rejected) => (~zeroTry.ok /\ zeroTry.key = NoKey)

(***************************************************************************)
(* SpecCryptoOps: one CryptoSetup under any sequence of its operations.    *)
(* Every operation runs under the CryptoSetup's mutex, so an interleaving  *)
(* of concurrent calls is a sequence of whole calls.                       *)
(***************************************************************************)
\* the number of operations explored
MaxCryptoOps == 3

\* what Rand.Read does: it fails, or it fills the buffer
RandSamples == {[err |-> TRUE, byte |-> 0], [err |-> FALSE, byte |-> 7]}

KeySamples == {NilKey, RawKey(<<>>), RawKey(BRep(5, 32))}

TicketSamples == {<<>>, BRep(4, 32)}

\* every TLS config: none, or one with each choice of Rand and
\* ClientSessionCache set or nil
AllConfigs ==
    {NilConfig}
    \cup {[present |-> TRUE, Rand |-> rnd, ClientSessionCache |-> cache] :
              rnd \in BOOLEAN, cache \in BOOLEAN}

InitCryptoOps ==
    /\ CodecIdle
    /\ FlowIdle
    /\ ConnIdle
    /\ RegistryIdle
    /\ \E cfg \in AllConfigs : cs = NewCryptoSetup(cfg)
    /\ zeroTry = [called |-> FALSE]
    /\ accepted = [id \in TicketIDs |-> -1]
    /\ cryptoCalls = 0
    /\ cryptoOp = [op |-> "none"]
    /\ now = 0

\* one operation: op with arguments arg finds the CryptoSetup cs, reports err
\* and leaves after
CryptoOp(op, arg, err, after) ==
    /\ cryptoCalls' = cryptoCalls + 1
    /\ cryptoOp' = [op |-> op, arg |-> arg, err |-> err, before |-> cs]
    /\ cs' = after
    /\ UNCHANGED <<codecVars, flowVars, connVars, registryVars, now, zeroTry, accepted>>

\* the last call ended in a run-time panic
CryptoCrashed ==
    /\ cryptoOp.op = "GetCryptoData"
    /\ cryptoOp.out = CryptoPanic

\* a further call can be made
CryptoMayCall ==
    /\ cryptoCalls < MaxCryptoOps
    /\ ~CryptoCrashed

OpHandleCryptoFrame ==
    /\ CryptoMayCall
    /\ \E data \in FrameSamples, level \in CryptoLevels :
          LET r == HandleCryptoFrame(cs, data, level)
          IN  CryptoOp("HandleCryptoFrame", <<data, level>>, r.err, r.cs)

OpSetHandshakeComplete ==
    /\ CryptoMayCall
    /\ CryptoOp("SetHandshakeComplete", <<>>, FALSE, SetHandshakeComplete(cs))

\* CryptoLevel is a uint8: the three named levels and one value past them
AnyLevels == CryptoLevels \cup {LevelOneRTT + 1}

OpGetCryptoData ==
    /\ CryptoMayCall
    /\ \E level \in AnyLevels, r \in RandSamples :
          LET out == GetCryptoData(cs, level, r)
          IN  /\ cryptoCalls' = cryptoCalls + 1
              /\ cryptoOp' = [op |-> "GetCryptoData", arg |-> <<level>>,
                              err |-> out.kind # "key", before |-> cs,
                              out |-> out]
              /\ UNCHANGED <<cs, codecVars, flowVars, connVars, registryVars,
                             now, zeroTry, accepted>>

OpUpdateSessionTicket ==
    /\ CryptoMayCall
    /\ \E ticket \in TicketSamples :
          LET r == UpdateSessionTicket(cs, ticket)
          IN  CryptoOp("UpdateSessionTicket", <<ticket>>, r.err, r.cs)

OpCompleteOneRTT ==
    /\ CryptoMayCall
    /\ \E rd \in RandSamples :
          LET r == CompleteOneRTT(cs, rd)
          IN  CryptoOp("CompleteOneRTT", <<>>, r.err, r.cs)

OpTryZeroRTT ==
    /\ CryptoMayCall
    /\ \E id \in TicketIDs :
          LET r == TryZeroRTT(cs, id)
          IN  CryptoOp("TryZeroRTT", <<id>>, ~r.ok, r.cs)

OpSetZeroRTTKey ==
    /\ CryptoMayCall
    /\ \E key \in KeySamples :
          LET r == SetZeroRTTKey(cs, key)
          IN  CryptoOp("SetZeroRTTKey", <<key>>, r.err, r.cs)

NextCryptoOps ==
    \/ OpHandleCryptoFrame
    \/ OpSetHandshakeComplete
    \/ OpGetCryptoData
    \/ OpUpdateSessionTicket
    \/ OpCompleteOneRTT
    \/ OpTryZeroRTT
    \/ OpSetZeroRTTKey

SpecCryptoOps == InitCryptoOps /\ [][NextCryptoOps]_vars

\* C27: in every reachable CryptoSetup a stored session ticket implies
\* handshakeComplete: CompleteOneRTT (whatever the TLS config and its
\* randomness source are) and UpdateSessionTicket return an error and leave
\* sessionTicket as it was whenever the handshake is not complete.
C27_TicketNeedsHandshake ==
    /\ cs.sessionTicket # <<>> => cs.handshakeComplete
    /\ (/\ cryptoOp.op \in {"CompleteOneRTT", "UpdateSessionTicket"}
        /\ ~cryptoOp.before.handshakeComplete) =>
           /\ cryptoOp.err
           /\ cs.sessionTicket = cryptoOp.before.sessionTicket
           /\ cs = cryptoOp.before

\* UpdateSessionTicket was handed a ticket before the handshake completed,
\* on a CryptoSetup whose TLS config has a randomness source
C27_Witness ==
    /\ cryptoOp.op = "UpdateSessionTicket"
    /\ cryptoOp.arg[1] # <<>>
    /\ ~cryptoOp.before.handshakeComplete
    /\ cryptoOp.before.tlsConfig.Rand
    /\ cryptoOp.err

\* C30: with a TLS config, GetCryptoData(Handshake) returns a key exactly
\* when at least 64 bytes are buffered, GetCryptoData(OneRTT) returns a key
\* exactly when handshakeComplete holds and at least 96 bytes are buffered,
\* and a level other than Initial, Handshake and OneRTT returns nil; with no
\* TLS config every level returns nil.  No call changes the CryptoSetup.
C30_GetCryptoData ==
    cryptoOp.op = "GetCryptoData" =>
        LET b == cryptoOp.before
            level == cryptoOp.arg[1]
            results == {GetCryptoData(b, level, r) : r \in RandSamples}
            isKey == \A res \in results : res.kind = "key"
            isNil == results = {NilBytes}
        IN  /\ cs = b
            /\ level # LevelInitial => cryptoOp.err = ~isKey
            /\ (b.tlsConfig.present /\ level = LevelHandshake) =>
                   /\ isKey \/ isNil
                   /\ isKey <=> BLen(b.handshakeData) >= 64
            /\ (b.tlsConfig.present /\ level = LevelOneRTT) =>
                   /\ isKey \/ isNil
                   /\ isKey <=> (b.handshakeComplete /\ BLen(b.handshakeData) >= 96)
            /\ level \notin CryptoLevels => isNil
            /\ ~b.tlsConfig.present => isNil

\* GetCryptoData(OneRTT) returned a key
C30_Witness ==
    /\ cryptoOp.op = "GetCryptoData"
    /\ cryptoOp.arg[1] = LevelOneRTT
    /\ ~cryptoOp.err
    /\ cryptoOp.before.handshakeComplete
    /\ BLen(cryptoOp.before.handshakeData) >= 96

\* C31: GetCryptoData(LevelInitial) on a CryptoSetup with a TLS config returns
\* nil, as a normal return value and without aborting, whenever the config
\* has no randomness source, whatever its other fields are; with a randomness
\* source it returns a non-nil secret.
C31_InitialSecretOrNil ==
    (/\ cryptoOp.op = "GetCryptoData"
     /\ cryptoOp.arg[1] = LevelInitial
     /\ cryptoOp.before.tlsConfig.present) =>
        IF ~cryptoOp.before.tlsConfig.Rand
        THEN cryptoOp.out = NilBytes
        ELSE cryptoOp.out.kind = "key"

\* C35: in every CryptoSetup state reachable through its public operations
\* handshakeComplete is true exactly when the level is OneRTT, and the level
\* is never Handshake; so once the handshake is complete every
\* HandleCryptoFrame at level Initial or Handshake fails as stale.
C35_CompleteIffOneRTT ==
    /\ cs.handshakeComplete <=> cs.level = LevelOneRTT
    /\ cs.level # LevelHandshake
    /\ (/\ cryptoOp.op = "HandleCryptoFrame"
        /\ cryptoOp.before.handshakeComplete
        /\ cryptoOp.arg[2] \in {LevelInitial, LevelHandshake}) =>
           /\ cryptoOp.err
           /\ cs = cryptoOp.before

\* after SetHandshakeComplete a Handshake-level frame with data was refused
C35_Witness ==
    /\ cryptoOp.op = "HandleCryptoFrame"
    /\ cryptoOp.before.handshakeComplete
    /\ cryptoOp.arg[2] = LevelHandshake
    /\ cryptoOp.arg[1] # <<>>
    /\ cryptoOp.err
    /\ cs.level = LevelOneRTT

\* C13: HandleCryptoFrame(data, level) with level below the current level
\* returns an error and leaves the handshake buffer as it was; with level at
\* or above the current level it succeeds and the buffer is the old buffer
\* followed by data.
C13_StaleLevelRejected ==
    cryptoOp.op = "HandleCryptoFrame" =>
        IF cryptoOp.arg[2] < cryptoOp.before.level
        THEN cryptoOp.err /\ cs.handshakeData = cryptoOp.before.handshakeData
        ELSE /\ ~cryptoOp.err
             /\ BLen(cs.handshakeData)
                    = BLen(cryptoOp.before.handshakeData) + BLen(cryptoOp.arg[1])
             /\ BTake(cs.handshakeData, BLen(cryptoOp.before.handshakeData))
                    = cryptoOp.before.handshakeData
             /\ BDrop(cs.handshakeData, BLen(cryptoOp.before.handshakeData))
                    = cryptoOp.arg[1]

\* C13 witness: a non-empty frame of a stale level was refused by a
\* CryptoSetup that held handshake data.
C13_Witness ==
    /\ cryptoOp.op = "HandleCryptoFrame"
    /\ cryptoOp.err
    /\ cryptoOp.arg[1] # <<>>
    /\ cryptoOp.before.handshakeData # <<>>

\* C14: over any sequence of CryptoSetup operations the crypto level never
\* decreases and handshakeComplete, once true, never becomes false.
C14_LevelMonotonic ==
    [][cs'.level >= cs.level /\ (cs.handshakeComplete => cs'.handshakeComplete)]_vars

\* C14 witness: an operation other than SetHandshakeComplete ran on a
\* CryptoSetup whose handshake was complete, and changed it.
C14_Witness ==
    /\ cryptoOp.op \in {"CompleteOneRTT", "UpdateSessionTicket", "HandleCryptoFrame"}
    /\ cryptoOp.before.handshakeComplete
    /\ cryptoOp.before.level = LevelOneRTT
    /\ cs # cryptoOp.before

(***************************************************************************)
(* Spec: one Connection.  Threads call HandlePacket and Close concurrently *)
(* (the server and the client start one goroutine per datagram); the owner *)
(* may call generatePacketNumber and, on the shared CryptoSetup,           *)
(* SetHandshakeComplete.  Every section a mutex guards is one step.        *)
(***************************************************************************)
\* bound: how far generatePacketNumber counts
MaxPN == 1

\* payloads: none, a few bytes, more than half the window, more than the window
SmallPayload == BRep(1, 5)

HalfPayload == BRep(2, InitialWindowSize \div 2 + 1)

BigPayload == BRep(3, InitialWindowSize + 1)

PNSamples2 == {U64(n) : n \in 0..(MaxPN + 1)}

Packet(type, version, pn, payload) ==
    [Type |-> type, Version |-> <<0, version>>, PacketNumber |-> pn,
     Payload |-> payload]

\* the packets handed to HandlePacket
ConnPackets ==
    {Packet(PacketTypeInitial, v, pn, SmallPayload) :
         v \in {Version, Version + 1}, pn \in PNSamples2}
    \cup {Packet(PacketTypeHandshake, Version, pn, SmallPayload) : pn \in PNSamples2}
    \cup {Packet(PacketTypeOneRTT, Version, pn, pl) :
              pn \in PNSamples2, pl \in {<<>>, HalfPayload, BigPayload}}
    \cup {Packet(PacketTypeRetry, Version, pn, <<>>) : pn \in PNSamples2}

Init ==
    /\ CodecIdle
    /\ FlowIdle
    /\ CryptoIdle
    /\ ConnIdle
    /\ RegistryIdle
    /\ now = 0

\* what a failed HandlePacket must leave alone
ConnView ==
    <<state, packetNumberGenerator, fc.bytesInFlight, cs.level, cs.handshakeData>>

\* thread t moves to newPc; a step that changes the connection marks the call
Goto(t, newPc) ==
    /\ pc' = [pc EXCEPT ![t] = newPc]
    /\ wrote' = [wrote EXCEPT ![t] = @ \/ (ConnView' # ConnView)]
    /\ UNCHANGED <<ret, cur, hsAtCall, pnSeen>>

\* thread t's call returns r and the goroutine ends
Return(t, r) ==
    /\ pc' = [pc EXCEPT ![t] = "done"]
    /\ ret' = [ret EXCEPT ![t] = r]
    /\ cur' = [cur EXCEPT ![t] = NoPacket]
    /\ wrote' = [wrote EXCEPT ![t] = FALSE]
    /\ hsAtCall' = [hsAtCall EXCEPT ![t] = FALSE]
    /\ UNCHANGED pnSeen

outside ==
    <<codecVars, sendCheck, flowCalls, zeroTry, accepted, cryptoCalls, cryptoOp,
      registryVars, now>>

untouched == <<outside, closeRuns>>

\* a faulty validation that also admits a packet number equal to the counter
validatePacketNumberLoose(receivedPN) == Le64(packetNumberGenerator, receivedPN)

\* a faulty validatePacketNumber that admits every number
validatePacketNumberAll(receivedPN) == TRUE

\* a faulty validatePacketNumber that wants a gap above the counter
validatePacketNumberGap(receivedPN) ==
    Lt64(Add64(packetNumberGenerator, U64(1)), receivedPN)

\* (c *Connection) validatePacketNumber
validatePacketNumber(receivedPN) == Lt64(packetNumberGenerator, receivedPN)

\* (c *Connection) generatePacketNumber, called by the owner
GeneratePacketNumber ==
    /\ Lt64(packetNumberGenerator, U64(MaxPN))
    /\ packetNumberGenerator' = Add64(packetNumberGenerator, U64(1))
    /\ UNCHANGED <<state, closeOnce, closeChan, pc, cur, ret, wrote, hsAtCall, pnSeen,
                   cs, fc, untouched>>

\* the owner of the CryptoSetup reports the handshake complete
OwnerSetHandshakeComplete ==
    /\ ~cs.handshakeComplete
    /\ cs' = SetHandshakeComplete(cs)
    /\ UNCHANGED <<state, packetNumberGenerator, closeOnce, closeChan, pc, cur, ret,
                   wrote, hsAtCall, pnSeen, fc, untouched>>

\* goroutines are interchangeable: they are started in the order of their names
MayBegin(t) == pc[t] = "idle" /\ \A u \in DOMAIN pc : u < t => pc[u] # "idle"

\* a faulty version test that takes every version
VersionSupportedAny(v) == TRUE

\* handleInitialPacket: p.Header.Version == protocol.Version
VersionSupported(v) == v = <<0, Version>>

\* a faulty switch whose default branch reports an unknown packet type
DispatchUnknownIsError(p) ==
    IF p.Type = PacketTypeInitial
    THEN IF ~VersionSupported(p.Version) THEN [ret |-> "UnsupportedVersion"]
         ELSE [pc |-> "initCrypto"]
    ELSE IF p.Type = PacketTypeHandshake THEN [pc |-> "hsCrypto"]
    ELSE IF p.Type = PacketTypeOneRTT THEN [pc |-> "oneGetState"]
    ELSE [ret |-> "UnknownPacketType"]

\* HandlePacket after validatePacketNumber admitted p: where the switch on the
\* type leads, or what the call returns at once (the version test of
\* handleInitialPacket reads only the packet)
Dispatch(p) ==
    IF p.Type = PacketTypeInitial
    THEN IF ~VersionSupported(p.Version) THEN [ret |-> "UnsupportedVersion"]
         ELSE [pc |-> "initCrypto"]
    ELSE IF p.Type = PacketTypeHandshake THEN [pc |-> "hsCrypto"]
    ELSE IF p.Type = PacketTypeOneRTT THEN [pc |-> "oneGetState"]
    ELSE [ret |-> "nil"]

\* what HandlePacket does with p up to the end of its first guarded section
Admit(p) ==
    IF ~validatePacketNumber(p.PacketNumber) THEN [ret |-> "InvalidPacketNumber"]
    ELSE Dispatch(p)

\* a goroutine calls c.HandlePacket(p), p one of packets, and runs
\* validatePacketNumber
ValidateFrom(t, packets) ==
    /\ UNCHANGED <<state, packetNumberGenerator, closeOnce, closeChan, cs, fc, untouched>>
    /\ \E p \in packets :
          LET a == Admit(p)
          IN  /\ pnSeen' = [pnSeen EXCEPT ![t] = p.PacketNumber]
              /\ IF "pc" \in DOMAIN a
                 THEN /\ cur' = [cur EXCEPT ![t] = p]
                      /\ hsAtCall' = [hsAtCall EXCEPT ![t] = HandshakeComplete(cs)]
                      /\ pc' = [pc EXCEPT ![t] = a.pc]
                      /\ UNCHANGED <<ret, wrote>>
                 ELSE /\ pc' = [pc EXCEPT ![t] = "done"]
                      /\ ret' = [ret EXCEPT ![t] = a.ret]
                      /\ UNCHANGED <<cur, wrote, hsAtCall>>

Validate(t) == MayBegin(t) /\ ValidateFrom(t, ConnPackets)

\* handleInitialPacket: c.cryptoSetup.HandleCryptoFrame(p.Payload, LevelInitial)
InitialCrypto(t) ==
    /\ pc[t] = "initCrypto"
    /\ UNCHANGED <<state, packetNumberGenerator, closeOnce, closeChan, fc, untouched>>
    /\ LET r == HandleCryptoFrame(cs, cur[t].Payload, LevelInitial)
       IN  /\ cs' = r.cs
           /\ IF r.err THEN Return(t, "StaleCryptoLevel") ELSE Goto(t, "initGetState")

\* a faulty state test, inverted
InitialStateOkInverted(s) == s # StateInitial

\* handleInitialPacket: the state in which an Initial packet sets the state
InitialStateOk(s) == s = StateInitial

\* handleInitialPacket: if c.GetState() == StateInitial
InitialGetState(t) ==
    /\ pc[t] = "initGetState"
    /\ UNCHANGED <<state, packetNumberGenerator, closeOnce, closeChan, cs, fc, untouched>>
    /\ IF InitialStateOk(state) THEN Goto(t, "initSetState") ELSE Return(t, "nil")

\* handleInitialPacket: c.setState(StateHandshaking)
InitialSetState(t) ==
    /\ pc[t] = "initSetState"
    /\ UNCHANGED <<packetNumberGenerator, closeOnce, closeChan, cs, fc, untouched>>
    /\ state' = StateHandshaking
    /\ Return(t, "nil")

\* what HandlePacket does with an Initial packet p, from validatePacketNumber
\* to the return of handleInitialPacket
HandleInitialWhole(p) ==
    LET a == Admit(p)
        r == HandleCryptoFrame(cs, p.Payload, LevelInitial)
    IN  IF "ret" \in DOMAIN a THEN [ret |-> a.ret, cs |-> cs, state |-> state]
        ELSE IF a.pc # "initCrypto" THEN [ret |-> "other", cs |-> cs, state |-> state]
        ELSE IF r.err THEN [ret |-> "StaleCryptoLevel", cs |-> r.cs, state |-> state]
        ELSE [ret |-> "nil", cs |-> r.cs,
              state |-> IF InitialStateOk(state) THEN StateHandshaking ELSE state]

\* what HandlePacket does with a Handshake packet p when no other call runs,
\* from validatePacketNumber to the return of handleHandshakePacket
HandleHandshakeWhole(p) ==
    LET a == Admit(p)
        r == HandleCryptoFrame(cs, p.Payload, LevelHandshake)
    IN  IF "ret" \in DOMAIN a THEN [ret |-> a.ret, cs |-> cs, state |-> state]
        ELSE IF a.pc # "hsCrypto" THEN [ret |-> "other", cs |-> cs, state |-> state]
        ELSE IF r.err THEN [ret |-> "StaleCryptoLevel", cs |-> r.cs, state |-> state]
        ELSE IF HandshakeComplete(r.cs)
        THEN [ret |-> "nil", cs |-> SetHandshakeComplete(r.cs),
              state |-> StateEstablished]
        ELSE [ret |-> "nil", cs |-> r.cs, state |-> state]

\* handleHandshakePacket: c.cryptoSetup.HandleCryptoFrame(p.Payload, LevelHandshake)
HandshakeCrypto(t) ==
    /\ pc[t] = "hsCrypto"
    /\ UNCHANGED <<state, packetNumberGenerator, closeOnce, closeChan, fc, untouched>>
    /\ LET r == HandleCryptoFrame(cs, cur[t].Payload, LevelHandshake)
       IN  /\ cs' = r.cs
           /\ IF r.err THEN Return(t, "StaleCryptoLevel") ELSE Goto(t, "hsCheck")

\* handleHandshakePacket: if c.cryptoSetup.HandshakeComplete()
HandshakeCheck(t) ==
    /\ pc[t] = "hsCheck"
    /\ UNCHANGED <<state, packetNumberGenerator, closeOnce, closeChan, cs, fc, untouched>>
    /\ IF HandshakeComplete(cs) THEN Goto(t, "hsSetState") ELSE Return(t, "nil")

\* handleHandshakePacket: c.setState(StateEstablished)
HandshakeSetState(t) ==
    /\ pc[t] = "hsSetState"
    /\ UNCHANGED <<packetNumberGenerator, closeOnce, closeChan, cs, fc, untouched>>
    /\ state' = StateEstablished
    /\ Goto(t, "hsSetComplete")

\* handleHandshakePacket: c.cryptoSetup.SetHandshakeComplete()
HandshakeSetComplete(t) ==
    /\ pc[t] = "hsSetComplete"
    /\ UNCHANGED <<state, packetNumberGenerator, closeOnce, closeChan, fc, untouched>>
    /\ cs' = SetHandshakeComplete(cs)
    /\ Return(t, "nil")

\* a faulty state test that takes a handshaking connection as established
OneRTTStateOkLoose(s) == s \in {StateHandshaking, StateEstablished}

\* handleOneRTTPacket: the state a 1-RTT packet needs
OneRTTStateOk(s) == s = StateEstablished

\* handleOneRTTPacket: if c.GetState() != StateEstablished
OneRTTGetState(t) ==
    /\ pc[t] = "oneGetState"
    /\ UNCHANGED <<state, packetNumberGenerator, closeOnce, closeChan, cs, fc, untouched>>
    /\ IF OneRTTStateOk(state) THEN Goto(t, "oneCanSend")
       ELSE Return(t, "NotEstablished")

\* handleOneRTTPacket: if !c.flowController.CanSend(len(p.Payload))
OneRTTCanSend(t) ==
    /\ pc[t] = "oneCanSend"
    /\ UNCHANGED <<state, packetNumberGenerator, closeOnce, closeChan, cs, fc, untouched>>
    /\ IF CanSend(fc, U64(BLen(cur[t].Payload))) THEN Goto(t, "oneDataSent")
       ELSE Return(t, "FlowControlExceeded")

\* handleOneRTTPacket: c.flowController.OnDataSent(len(p.Payload))
OneRTTDataSent(t) ==
    /\ pc[t] = "oneDataSent"
    /\ UNCHANGED <<state, packetNumberGenerator, closeOnce, closeChan, cs, untouched>>
    /\ fc' = OnDataSent(fc, U64(BLen(cur[t].Payload)))
    /\ IF BLen(cur[t].Payload) > 0 THEN Goto(t, "oneCheck") ELSE Return(t, "nil")

\* handleOneRTTPacket: if !c.cryptoSetup.HandshakeComplete()
OneRTTCheck(t) ==
    /\ pc[t] = "oneCheck"
    /\ UNCHANGED <<state, packetNumberGenerator, closeOnce, closeChan, cs, fc, untouched>>
    /\ IF HandshakeComplete(cs) THEN Goto(t, "oneUpdate")
       ELSE Return(t, "HandshakeIncomplete")

\* handleOneRTTPacket: c.flowController.UpdateWindow(len(p.Payload))
OneRTTUpdate(t) ==
    /\ pc[t] = "oneUpdate"
    /\ UNCHANGED <<state, packetNumberGenerator, closeOnce, closeChan, cs, untouched>>
    /\ fc' = UpdateWindow(fc, U64(BLen(cur[t].Payload)), now)
    /\ Return(t, "nil")

\* a goroutine calls c.Close()
BeginClose(t) ==
    /\ MayBegin(t)
    /\ pc' = [pc EXCEPT ![t] = "close"]
    /\ UNCHANGED <<ret, cur, wrote, hsAtCall, pnSeen>>
    /\ UNCHANGED <<state, packetNumberGenerator, closeOnce, closeChan, cs, fc, untouched>>

\* a faulty Once that runs the function on every call
OnceDoAlways(once) == TRUE

\* sync.Once: Do runs the function if no call of Do has run it
OnceDoRuns(once) == once = "fresh"

\* Close: c.closeOnce.Do(...): the first caller runs the body, a caller that
\* finds it done returns, a caller that finds it running waits
CloseOnceDo(t) ==
    /\ pc[t] = "close"
    /\ UNCHANGED <<state, packetNumberGenerator, closeChan, cs, fc, untouched>>
    /\ closeOnce # "running"
    /\ IF OnceDoRuns(closeOnce)
       THEN closeOnce' = "running" /\ Goto(t, "closeChan")
       ELSE closeOnce' = closeOnce /\ Return(t, "nil")

\* Close: close(c.closeChan)
CloseChan(t) ==
    /\ pc[t] = "closeChan"
    /\ UNCHANGED <<state, packetNumberGenerator, closeOnce, cs, fc, outside>>
    /\ closeChan' = "closed"
    /\ closeRuns' = closeRuns + 1
    /\ Goto(t, "closeSetState")

\* Close: c.setState(StateClosed), and the Once is done
CloseSetState(t) ==
    /\ pc[t] = "closeSetState"
    /\ UNCHANGED <<packetNumberGenerator, closeChan, cs, fc, untouched>>
    /\ state' = StateClosed
    /\ closeOnce' = "done"
    /\ Return(t, "nil")

HandlePacketStep(t) ==
    \/ Validate(t)
    \/ InitialCrypto(t)
    \/ InitialGetState(t)
    \/ InitialSetState(t)
    \/ HandshakeCrypto(t)
    \/ HandshakeCheck(t)
    \/ HandshakeSetState(t)
    \/ HandshakeSetComplete(t)
    \/ OneRTTGetState(t)
    \/ OneRTTCanSend(t)
    \/ OneRTTDataSent(t)
    \/ OneRTTCheck(t)
    \/ OneRTTUpdate(t)

CloseStep(t) == BeginClose(t) \/ CloseOnceDo(t) \/ CloseChan(t) \/ CloseSetState(t)

Next ==
    \/ GeneratePacketNumber
    \/ OwnerSetHandshakeComplete
    \/ \E t \in Threads : HandlePacketStep(t) \/ CloseStep(t)

Spec == Init /\ [][Next]_vars

(***************************************************************************)
(* SpecData: one Connection that is brought up by a Handshake packet and   *)
(* then carries 1-RTT packets, each HandlePacket call in its own goroutine. *)
(***************************************************************************)
\* bound: the goroutines of SpecData
NumDataThreads == 3

DataThreads == 1..NumDataThreads

\* a Handshake packet and a 1-RTT packet of more than half the window
DataPackets ==
    {Packet(PacketTypeHandshake, Version, U64(1), SmallPayload),
     Packet(PacketTypeOneRTT, Version, U64(1), HalfPayload)}

InitData ==
    /\ CodecIdle
    /\ FlowIdle
    /\ CryptoIdle
    /\ ConnIdleWith(DataThreads)
    /\ RegistryIdle
    /\ now = 0

ValidateData(t) == MayBegin(t) /\ ValidateFrom(t, DataPackets)

NextData ==
    \/ OwnerSetHandshakeComplete
    \/ \E t \in DataThreads :
          \/ ValidateData(t)
          \/ HandshakeCrypto(t)
          \/ HandshakeCheck(t)
          \/ HandshakeSetState(t)
          \/ HandshakeSetComplete(t)
          \/ OneRTTGetState(t)
          \/ OneRTTCanSend(t)
          \/ OneRTTDataSent(t)
          \/ OneRTTCheck(t)
          \/ OneRTTUpdate(t)

SpecData == InitData /\ [][NextData]_vars

(***************************************************************************)
(* SpecClose: goroutines that call Close on one Connection, one after      *)
(* another or at once, whatever state the connection has reached.          *)
(***************************************************************************)
\* bound: the goroutines of SpecClose
NumCloseThreads == 5

CloseThreads == 1..NumCloseThreads

InitClose ==
    /\ CodecIdle
    /\ FlowIdle
    /\ CryptoIdle
    /\ RegistryIdle
    /\ state \in {StateInitial, StateHandshaking, StateEstablished}
    /\ packetNumberGenerator = U64(0)
    /\ closeOnce = "fresh"
    /\ closeChan = "open"
    /\ closeRuns = 0
    /\ pc = [t \in CloseThreads |-> "idle"]
    /\ cur = [t \in CloseThreads |-> NoPacket]
    /\ ret = [t \in CloseThreads |-> "none"]
    /\ wrote = [t \in CloseThreads |-> FALSE]
    /\ hsAtCall = [t \in CloseThreads |-> FALSE]
    /\ pnSeen = [t \in CloseThreads |-> <<>>]
    /\ now = 0

NextClose == \E t \in CloseThreads : CloseStep(t)

SpecClose == InitClose /\ [][NextClose]_vars

\* C19: Close is one-shot: however many Close calls are made, one after
\* another or concurrently, the function that closes closeChan and sets the
\* state to Closed is run exactly once, every call returns nil, and once a
\* call has returned the state is Closed.
C19_CloseOneShot ==
    /\ closeRuns <= 1
    /\ \A t \in DOMAIN ret : ret[t] \in {"none", "nil"}
    /\ (\E t \in DOMAIN ret : ret[t] # "none") =>
          /\ closeRuns = 1
          /\ closeChan = "closed"
          /\ state = StateClosed

\* every goroutine's Close has returned
C19_Witness ==
    /\ \A t \in DOMAIN ret : ret[t] = "nil"
    /\ closeRuns = 1
    /\ state = StateClosed

(***************************************************************************)
(* SpecSeq: HandlePacket calls on one Connection made one after another:   *)
(* a call begins only when no other call is in progress.  The owner sends  *)
(* (generatePacketNumber) and reports the handshake complete on its own    *)
(* goroutine, at any time.                                                 *)
(***************************************************************************)
\* bound: the HandlePacket calls of SpecSeq
NumSeqCalls == 3

SeqCalls == 1..NumSeqCalls

InitSeq ==
    /\ CodecIdle
    /\ FlowIdle
    /\ CryptoIdle
    /\ ConnIdleWith(SeqCalls)
    /\ RegistryIdle
    /\ now = 0

\* no call is in progress
Quiet == \A t \in DOMAIN pc : pc[t] \in {"idle", "done"}

SeqValidate(t) ==
    /\ Quiet
    /\ Validate(t)

NextSeq ==
    \/ GeneratePacketNumber
    \/ OwnerSetHandshakeComplete
    \/ \E t \in SeqCalls :
          \/ SeqValidate(t)
          \/ InitialCrypto(t)
          \/ InitialGetState(t)
          \/ InitialSetState(t)
          \/ HandshakeCrypto(t)
          \/ HandshakeCheck(t)
          \/ HandshakeSetState(t)
          \/ HandshakeSetComplete(t)
          \/ OneRTTGetState(t)
          \/ OneRTTCanSend(t)
          \/ OneRTTDataSent(t)
          \/ OneRTTCheck(t)
          \/ OneRTTUpdate(t)

SpecSeq == InitSeq /\ [][NextSeq]_vars

\* C20: over HandlePacket calls made one after another the state never moves
\* backwards in the order Initial < Handshaking < Established; while an
\* Initial packet is handled the state changes only in the step in which the
\* call returns nil, and there it goes from Initial to Handshaking and is left
\* as it is from Handshaking and Established.  (An established connection has
\* its CryptoSetup at LevelOneRTT, so there the ingest of an Initial packet
\* fails and the packet is not accepted.)
C20_InitialAdvances ==
    [][/\ state' >= state
       /\ \A t \in DOMAIN pc :
             cur[t].Type = PacketTypeInitial =>
                IF ret'[t] = "nil"
                THEN state' = (IF state = StateInitial THEN StateHandshaking ELSE state)
                ELSE state' = state]_vars

\* an accepted Initial packet has moved the connection to Handshaking, and
\* a later call has returned without changing that
C20_Witness ==
    /\ state = StateHandshaking
    /\ \E t, u \in DOMAIN ret : t # u /\ ret[t] = "nil" /\ ret[u] # "none"

(***************************************************************************)
(* Claims about the Connection                                             *)
(***************************************************************************)
\* the results of HandlePacket that are errors
ErrorResults ==
    {"InvalidPacketNumber", "UnsupportedVersion", "StaleCryptoLevel",
     "NotEstablished", "FlowControlExceeded", "HandshakeIncomplete"}

\* the Retry packets of ConnPackets
RetryPackets == {p \in ConnPackets : p.Type = PacketTypeRetry}

\* packets whose type is none of Initial, Handshake and OneRTT: Retry, and a
\* type byte past Retry
OtherTypePackets ==
    RetryPackets
    \cup {Packet(PacketTypeRetry + 1, Version, pn, <<>>) : pn \in PNSamples2}

\* a HandlePacket call of t begins in this step
Begins(t) == pc[t] = "idle" /\ pc'[t] # "idle"

\* a HandlePacket call of t begins in this step and returns r from the switch
\* on the type, without entering a handler
ReturnsAtOnce(t, r) == pc[t] = "idle" /\ pc'[t] = "done" /\ ret'[t] = r

C34_EstablishedMeansComplete ==
    /\ state = StateEstablished => cs.handshakeComplete
    /\ \A t \in DOMAIN pc :
          /\ pc[t] \in {"oneCanSend", "oneDataSent", "oneCheck", "oneUpdate"}
                => cs.handshakeComplete
          /\ ret[t] # "HandshakeIncomplete"

\* on an Established connection a 1-RTT packet with a payload has passed the
\* HandshakeComplete test of handleOneRTTPacket
C34_Witness ==
    /\ state = StateEstablished
    /\ \E t \in DOMAIN pc : pc[t] = "oneUpdate" /\ BLen(cur[t].Payload) > 0

\* C37: when the HandlePacket calls on a connection run one at a time,
\* bytesInFlight has the same value after each call as before it (an
\* accepted OneRTT packet adds its payload length and reclaims it in the same
\* call), so it stays 0, and a OneRTT packet on an Established connection is
\* accepted exactly when its payload length is at most windowSize.
C37_InFlightBackToZero ==
    [][/\ Quiet' => fc'.bytesInFlight = U64(0)
       /\ \A t \in DOMAIN pc :
             /\ (pc[t] = "oneCanSend" /\ pc'[t] # "oneCanSend") =>
                    /\ state = StateEstablished
                    /\ pc'[t] = "oneDataSent"
                          <=> Le64(U64(BLen(cur[t].Payload)), fc.windowSize)
                    /\ pc'[t] # "oneDataSent" => ret'[t] = "FlowControlExceeded"
             /\ (/\ pc[t] \in {"oneDataSent", "oneCheck", "oneUpdate"}
                 /\ pc'[t] = "done") => ret'[t] = "nil"]_vars

\* one OneRTT packet was refused for the window, and another, of more than
\* half the window, has added its payload length and is about to reclaim it
C37_Witness ==
    /\ state = StateEstablished
    /\ \E t, u \in DOMAIN pc :
          /\ ret[u] = "FlowControlExceeded"
          /\ pc[t] = "oneUpdate"
          /\ fc.bytesInFlight = U64(BLen(HalfPayload))

\* C33: HandlePacket returns an error for every packet whose header type is
\* none of Initial, Handshake and OneRTT.
C33_UnknownTypeIsError ==
    [][\A t \in DOMAIN pc :
          (pc[t] = "idle" /\ pc'[t] = "done") =>
             /\ ret'[t] \in ErrorResults
             /\ \A p \in OtherTypePackets :
                   p.PacketNumber = pnSeen'[t] =>
                      /\ "ret" \in DOMAIN Admit(p)
                      /\ Admit(p).ret \in ErrorResults]_vars

(***************************************************************************)
(* SpecReplay: HandlePacket calls made one after another on one Connection, *)
(* each delivering one of two packets that are told apart by their packet  *)
(* numbers, so that a call whose number was seen before is a re-delivery.  *)
(***************************************************************************)
ReplayPackets ==
    {Packet(PacketTypeInitial, Version, U64(1), SmallPayload),
     Packet(PacketTypeHandshake, Version, U64(2), BRep(2, 7))}

ReplayValidate(t) ==
    /\ Quiet
    /\ MayBegin(t)
    /\ ValidateFrom(t, ReplayPackets)

NextReplay ==
    \/ GeneratePacketNumber
    \/ OwnerSetHandshakeComplete
    \/ \E t \in SeqCalls :
          \/ ReplayValidate(t)
          \/ InitialCrypto(t)
          \/ InitialGetState(t)
          \/ InitialSetState(t)
          \/ HandshakeCrypto(t)
          \/ HandshakeCheck(t)
          \/ HandshakeSetState(t)
          \/ HandshakeSetComplete(t)

SpecReplay == InitSeq /\ [][NextReplay]_vars

\* an earlier call delivered the packet numbered pn and it was admitted
AdmittedBefore(pn) ==
    \E u \in DOMAIN pc :
        pc[u] = "done" /\ pnSeen[u] = pn /\ ret[u] # "InvalidPacketNumber"

\* an earlier call delivered the packet numbered pn and returned nil
AcceptedBefore(pn) ==
    \E u \in DOMAIN pc : pc[u] = "done" /\ pnSeen[u] = pn /\ ret[u] = "nil"

\* call t hands its payload to HandleCryptoFrame in this step
CryptoStep(t) == pc[t] \in {"initCrypto", "hsCrypto"} /\ pc'[t] # pc[t]

\* the level at which call t hands its payload to HandleCryptoFrame
CryptoLevelOf(t) == IF pc[t] = "initCrypto" THEN LevelInitial ELSE LevelHandshake

\* HandlePacket never changes the packet number counter, and a number that
\* was admitted is admitted again while the counter is below it
ReplayAdmitted ==
    /\ packetNumberGenerator' # packetNumberGenerator => pc' = pc
    /\ \A t \in DOMAIN pc :
          (/\ Begins(t)
           /\ AdmittedBefore(pnSeen'[t])
           /\ Lt64(packetNumberGenerator, pnSeen'[t])) =>
              ret'[t] # "InvalidPacketNumber"

\* C36: HandlePacket never changes the packet number counter (only
\* generatePacketNumber does), so a packet number admitted once is admitted
\* again on every later delivery until generatePacketNumber has been called
\* often enough to reach it; each re-delivered Initial or Handshake packet
\* appends its payload to the handshake buffer again.
C36_ReplayAppends ==
    [][/\ ReplayAdmitted
       /\ \A t \in DOMAIN pc :
             (CryptoStep(t) /\ AcceptedBefore(pnSeen[t])) =>
                cs'.handshakeData = BCat(cs.handshakeData, cur[t].Payload)]_vars

\* C36, amended: as C36, but a re-delivered Initial or Handshake packet
\* appends its payload again only while the crypto level is not above the
\* packet's level; once SetHandshakeComplete has raised the level to OneRTT
\* the re-delivered packet is refused as stale and the buffer is left as it
\* is.
C36_ReplayAppendsUnlessStale ==
    [][/\ ReplayAdmitted
       /\ \A t \in DOMAIN pc :
             (CryptoStep(t) /\ AcceptedBefore(pnSeen[t])) =>
                IF CryptoLevelOf(t) < cs.level
                THEN /\ ret'[t] = "StaleCryptoLevel"
                     /\ cs' = cs
                ELSE /\ ret'[t] # "StaleCryptoLevel"
                     /\ cs'.handshakeData = BCat(cs.handshakeData, cur[t].Payload)]_vars

\* the Initial packet was delivered three times with the counter at 0, was
\* accepted each time, and the buffer holds its payload three times
C36_Witness ==
    /\ packetNumberGenerator = U64(0)
    /\ \A t \in DOMAIN pc : pc[t] = "done" /\ pnSeen[t] = U64(1) /\ ret[t] = "nil"
    /\ cs.handshakeData = BCat(BCat(SmallPayload, SmallPayload), SmallPayload)

\* C3: Closed is absorbing.  Once the state is Closed it is Closed in every
\* later state, whatever Close and HandlePacket calls are interleaved.
C3_ClosedAbsorbing == [][state = StateClosed => state' = StateClosed]_vars

\* C4: a HandlePacket call with an admitted Handshake packet, begun when the
\* CryptoSetup already reported handshakeComplete, returns no error and leaves
\* the connection Established.
C4_HandshakeWhenComplete ==
    [][\A t \in Threads :
          (/\ cur[t].Type = PacketTypeHandshake
           /\ hsAtCall[t]
           /\ pc[t] # "done"
           /\ pc'[t] = "done")
          => (ret'[t] = "nil" /\ state' = StateEstablished)]_vars

\* C5: HandlePacket rejects a packet with the packet-number error exactly when
\* its number is less than or equal to the counter at the moment of validation;
\* every greater number passes validation.
C5_AdmitIffGreater ==
    [][\A t \in Threads :
          (pnSeen[t] = <<>> /\ pnSeen'[t] # <<>>)
          => ((ret'[t] = "InvalidPacketNumber")
                  <=> Le64(pnSeen'[t], packetNumberGenerator))]_vars

\* C5 witness: after generatePacketNumber returned 1, a packet numbered 1 was
\* rejected and a packet numbered 2 was admitted.
C5_Witness ==
    /\ packetNumberGenerator = U64(1)
    /\ \E t, u \in Threads :
          /\ pnSeen[t] = U64(1) /\ ret[t] = "InvalidPacketNumber"
          /\ pnSeen[u] = U64(2) /\ pc[u] # "idle" /\ ret[u] # "InvalidPacketNumber"

\* C6: of two HandlePacket calls in flight at the same time on one connection,
\* both past packet-number validation, no two carry the same packet number.
C6_OneAdmissionPerNumber ==
    \A t, u \in Threads :
        (t # u /\ cur[t] # NoPacket /\ cur[u] # NoPacket)
        => cur[t].PacketNumber # cur[u].PacketNumber

\* C8: all-or-nothing dispatch.  A HandlePacket call that returns an error has
\* changed none of the connection state, the packet-number counter,
\* bytesInFlight, the crypto level and the handshake buffer: no earlier step of
\* the call wrote them and the returning step leaves them as they are.
C8_AllOrNothing ==
    [][\A t \in Threads :
          (pc[t] # "done" /\ pc'[t] = "done" /\ ret'[t] \in ErrorResults)
          => (~wrote[t] /\ ConnView' = ConnView)]_vars

\* C8 witness: on an Established connection a call was refused for the flow
\* window, and nothing is in flight.
C8_Witness ==
    /\ state = StateEstablished
    /\ fc.bytesInFlight = U64(0)
    /\ \E t \in Threads : ret[t] = "FlowControlExceeded"

\* the Initial packets of ConnPackets whose version is not Version
BadVersionInitials ==
    {p \in ConnPackets : p.Type = PacketTypeInitial /\ p.Version # <<0, Version>>}

\* C21: an Initial packet whose version is not the supported one is rejected
\* with an error (whatever the packet number counter is), and the call that
\* rejects it leaves the connection state and the handshake buffer as they
\* were.
C21_BadVersionRejected ==
    [][\A t \in DOMAIN pc :
          (pc[t] = "idle" /\ pc'[t] # "idle") =>
             /\ \A p \in BadVersionInitials :
                   /\ "ret" \in DOMAIN Admit(p)
                   /\ Admit(p).ret \in {"InvalidPacketNumber", "UnsupportedVersion"}
             /\ ret'[t] = "UnsupportedVersion" =>
                   /\ state' = state
                   /\ cs'.handshakeData = cs.handshakeData]_vars

\* an Initial packet of another version, with an admissible packet number,
\* has been rejected
C21_Witness == \E t \in DOMAIN ret : ret[t] = "UnsupportedVersion"

\* C9: a 1-RTT packet that finds the connection in a state other than
\* Established is rejected with the not-established error, and the rejection
\* changes neither the state nor bytesInFlight.
C9_OneRTTNeedsEstablished ==
    [][\A t \in Threads :
          (pc[t] = "oneGetState" /\ pc'[t] # "oneGetState"
              /\ state # StateEstablished)
          => (/\ pc'[t] = "done"
              /\ ret'[t] = "NotEstablished"
              /\ state' = state
              /\ fc'.bytesInFlight = fc.bytesInFlight)]_vars

\* C9 witness: a 1-RTT packet was rejected while the connection was Handshaking.
C9_Witness ==
    \E t \in Threads : ret[t] = "NotEstablished" /\ state = StateHandshaking

\* C11: while HandlePacket calls process 1-RTT packets concurrently on one
\* connection, bytesInFlight never exceeds windowSize.
C11_InFlightWithinWindow == Le64(fc.bytesInFlight, fc.windowSize)

(***************************************************************************)
(* SpecIDs: one IDManager under any sequence of AddConnectionID and        *)
(* RemoveConnectionID calls, one after the other.                          *)
(***************************************************************************)
\* bounds: the largest maxActiveIDs and the number of calls explored
MaxActiveIDs == 2
MaxIDCalls == 4

\* 8-byte connection ids (IDLength)
ConnIDSamples == {IDOf(8, 0), IDOf(8, 1), IDOf(8, 2)}

InitIDs ==
    /\ CodecIdle
    /\ FlowIdle
    /\ CryptoIdle
    /\ ConnIdle
    /\ ServerIdle
    /\ ClientIdle
    /\ SessionIdle
    /\ \E n \in 0..MaxActiveIDs : idm = NewIDManager(n)
    /\ idOp = [op |-> "none"]
    /\ idCalls = 0
    /\ idThreads = [t \in IDThreads |-> NoIDCall]
    /\ idFatal = FALSE
    /\ now = 0

\* one call: op with argument id finds the manager idm, reports err and
\* leaves after
IDCall(op, id, err, after) ==
    /\ idCalls' = idCalls + 1
    /\ idOp' = [op |-> op, id |-> id, err |-> err, before |-> idm,
                freed |-> idOp.op = "RemoveConnectionID"
                              /\ idOp.id \in idOp.before.activeIDs]
    /\ idm' = after
    /\ UNCHANGED <<codecVars, flowVars, cryptoVars, connVars, serverVars, clientVars,
                   sessionVars, idThreads, idFatal, now>>

CallAddConnectionID ==
    /\ idCalls < MaxIDCalls
    /\ \E id \in ConnIDSamples :
          LET r == AddConnectionID(idm, id)
          IN  IDCall("AddConnectionID", id, r.err, r.m)

CallRemoveConnectionID ==
    /\ idCalls < MaxIDCalls
    /\ \E id \in ConnIDSamples :
          IDCall("RemoveConnectionID", id, FALSE, RemoveConnectionID(idm, id))

NextIDs == CallAddConnectionID \/ CallRemoveConnectionID

SpecIDs == InitIDs /\ [][NextIDs]_vars

\* C15: after any sequence of AddConnectionID and RemoveConnectionID calls the
\* number of active ids is at most maxActiveIDs; AddConnectionID fails exactly
\* when the set already holds maxActiveIDs entries, and then leaves the set
\* unchanged; otherwise it succeeds and the id is in the set; an add that
\* follows the removal of an active id succeeds.
C15_CapacityRespected ==
    /\ Cardinality(GetActiveIDs(idm)) <= idm.maxActiveIDs
    /\ idOp.op = "AddConnectionID" =>
          /\ idOp.err <=> Cardinality(idOp.before.activeIDs) = idOp.before.maxActiveIDs
          /\ idOp.err => idm = idOp.before
          /\ ~idOp.err => idm.activeIDs = idOp.before.activeIDs \cup {idOp.id}
          /\ idOp.freed => ~idOp.err

\* C15 witness: an active id was removed, the add of a new id that followed
\* succeeded, and the manager is full.
C15_Witness ==
    /\ idOp.op = "AddConnectionID"
    /\ idOp.freed
    /\ ~idOp.err
    /\ idOp.id \notin idOp.before.activeIDs
    /\ idm.maxActiveIDs >= 1
    /\ Cardinality(idm.activeIDs) = idm.maxActiveIDs

(***************************************************************************)
(* SpecIDRace: one IDManager whose methods are called from several         *)
(* goroutines.  The IDManager has no mutex: the capacity test and the map  *)
(* write of AddConnectionID are separate steps, and two map writes that    *)
(* overlap are a data race that the Go runtime may stop with a fatal error. *)
(***************************************************************************)
InitIDRace ==
    /\ CodecIdle
    /\ FlowIdle
    /\ CryptoIdle
    /\ ConnIdle
    /\ ServerIdle
    /\ ClientIdle
    /\ SessionIdle
    /\ \E n \in 0..MaxActiveIDs : idm = NewIDManager(n)
    /\ idOp = [op |-> "none"]
    /\ idCalls = 0
    /\ idThreads = [t \in IDThreads |-> NoIDCall]
    /\ idFatal = FALSE
    /\ now = 0

idUntouched ==
    <<codecVars, flowVars, cryptoVars, connVars, serverVars, clientVars, sessionVars,
      idOp, idCalls, now>>

\* goroutines are interchangeable: they are started in the order of their names
IDMayBegin(t) ==
    /\ ~idFatal
    /\ idThreads[t].pc = "idle"
    /\ \A u \in IDThreads : u < t => idThreads[u].pc # "idle"

\* goroutine t is about to write the map
IDWriting(t) == idThreads[t].pc \in {"addInsert", "remove"}

\* a goroutine calls m.AddConnectionID(id)
BeginAdd(t) ==
    /\ IDMayBegin(t)
    /\ \E id \in ConnIDSamples :
          idThreads' = [idThreads EXCEPT ![t] = [@ EXCEPT !.pc = "addCheck", !.id = id]]
    /\ UNCHANGED <<idm, idFatal, idUntouched>>

\* AddConnectionID: if len(m.activeIDs) >= m.maxActiveIDs { return error }
AddCheck(t) ==
    /\ ~idFatal
    /\ idThreads[t].pc = "addCheck"
    /\ idThreads' = [idThreads EXCEPT ![t] =
          IF IDManagerFull(idm) THEN [@ EXCEPT !.pc = "done", !.ret = "TooManyIDs"]
          ELSE [@ EXCEPT !.pc = "addInsert"]]
    /\ UNCHANGED <<idm, idFatal, idUntouched>>

\* AddConnectionID: m.activeIDs[string(id)] = id; return nil
AddInsert(t) ==
    /\ ~idFatal
    /\ idThreads[t].pc = "addInsert"
    /\ idm' = InsertID(idm, idThreads[t].id)
    /\ idThreads' = [idThreads EXCEPT ![t] = [@ EXCEPT !.pc = "done", !.ret = "nil"]]
    /\ UNCHANGED <<idFatal, idUntouched>>

\* a goroutine calls m.RemoveConnectionID(id)
BeginRemove(t) ==
    /\ IDMayBegin(t)
    /\ \E id \in ConnIDSamples :
          idThreads' = [idThreads EXCEPT ![t] = [@ EXCEPT !.pc = "remove", !.id = id]]
    /\ UNCHANGED <<idm, idFatal, idUntouched>>

\* RemoveConnectionID: delete(m.activeIDs, string(id))
RemoveDelete(t) ==
    /\ ~idFatal
    /\ idThreads[t].pc = "remove"
    /\ idm' = RemoveConnectionID(idm, idThreads[t].id)
    /\ idThreads' = [idThreads EXCEPT ![t] = [@ EXCEPT !.pc = "done", !.ret = "nil"]]
    /\ UNCHANGED <<idFatal, idUntouched>>

\* two goroutines write the map at once: "fatal error: concurrent map writes"
ConcurrentMapWrites(t) ==
    /\ ~idFatal
    /\ IDWriting(t)
    /\ \E u \in IDThreads : u # t /\ IDWriting(u)
    /\ idFatal' = TRUE
    /\ UNCHANGED <<idm, idThreads, idUntouched>>

NextIDRace ==
    \E t \in IDThreads :
        \/ BeginAdd(t)
        \/ AddCheck(t)
        \/ AddInsert(t)
        \/ BeginRemove(t)
        \/ RemoveDelete(t)
        \/ ConcurrentMapWrites(t)

SpecIDRace == InitIDRace /\ [][NextIDRace]_vars

\* C16: when AddConnectionID calls run concurrently, the capacity test and
\* the insertion of one call are not interleaved with another call's: the
\* active set never holds more than maxActiveIDs entries.
C16_ActiveWithinMax == Cardinality(idm.activeIDs) <= idm.maxActiveIDs

(***************************************************************************)
(* SpecServer: handlePacket goroutines of one Server, one per datagram,    *)
(* running concurrently.  The read-locked lookup and the write-locked      *)
(* capacity test and insertion are one step each.                          *)
(***************************************************************************)
\* bound: the largest MaxConnections a configuration asks for
MaxConfigConnections == 2

\* what packet.Unpack makes of a datagram: an error, or a packet with a
\* destination id and a type
Datagrams ==
    {NoDatagram} \cup
    [valid : {TRUE}, dest : ConnIDSamples,
     type : {PacketTypeInitial, PacketTypeOneRTT}]

InitServer ==
    /\ CodecIdle
    /\ FlowIdle
    /\ CryptoIdle
    /\ ConnIdle
    /\ IDIdle
    /\ ClientIdle
    /\ SessionIdle
    /\ \E n \in -1..MaxConfigConnections : srv = NewServer(n)
    /\ conns = <<>>
    /\ dispatched = {}
    /\ handlers = [h \in Handlers |-> NoHandler]
    /\ now = 0

srvUntouched ==
    <<codecVars, flowVars, cryptoVars, connVars, idVars, clientVars, sessionVars, now>>

\* goroutines are interchangeable: they are started in the order of their names
HandlerMayBegin(h) ==
    /\ handlers[h].pc = "idle"
    /\ \A u \in Handlers : u < h => handlers[u].pc # "idle"

HandlerReturn(h, r) == handlers' = [handlers EXCEPT ![h].pc = "done", ![h].ret = r]

\* acceptLoop: go s.handlePacket(...); handlePacket: Unpack, then the lookup
\* of the destination id under the read lock
Lookup(h) ==
    /\ HandlerMayBegin(h)
    /\ \E d \in Datagrams :
          IF ~d.valid
          THEN handlers' = [handlers EXCEPT ![h] =
                  [pc |-> "done", p |-> d, conn |-> 0, ret |-> "unpackError"]]
          ELSE LET conn == LookupConn(srv, d.dest)
               IN  handlers' = [handlers EXCEPT ![h] =
                      IF conn = 0 /\ d.type = PacketTypeInitial
                      THEN [pc |-> "create", p |-> d, conn |-> 0, ret |-> "none"]
                      ELSE IF conn = 0
                      THEN [pc |-> "done", p |-> d, conn |-> 0, ret |-> "noConnection"]
                      ELSE [pc |-> "dispatch", p |-> d, conn |-> conn, ret |-> "none"]]
    /\ UNCHANGED <<srv, conns, dispatched, srvUntouched>>

\* handlePacket, no entry and an Initial packet: GenerateConnectionID (which
\* may fail), then NewConnection
Create(h) ==
    /\ handlers[h].pc = "create"
    /\ \E ok \in BOOLEAN :
          IF ok
          THEN /\ conns' = Append(conns, handlers[h].p.dest)
               /\ handlers' = [handlers EXCEPT ![h].pc = "insert",
                                               ![h].conn = Len(conns) + 1]
          ELSE /\ HandlerReturn(h, "idError")
               /\ UNCHANGED conns
    /\ UNCHANGED <<srv, dispatched, srvUntouched>>

\* handlePacket under the write lock: the capacity test, then the store
Insert(h) ==
    /\ handlers[h].pc = "insert"
    /\ IF ServerFull(srv)
       THEN /\ HandlerReturn(h, "full")
            /\ UNCHANGED srv
       ELSE /\ srv' = StoreConn(srv, handlers[h].p.dest, handlers[h].conn)
            /\ handlers' = [handlers EXCEPT ![h].pc = "dispatch"]
    /\ UNCHANGED <<conns, dispatched, srvUntouched>>

\* handlePacket: conn.HandlePacket(p)
ServerDispatch(h) ==
    /\ handlers[h].pc = "dispatch"
    /\ dispatched' = dispatched \cup {<<handlers[h].p.dest, handlers[h].conn>>}
    /\ HandlerReturn(h, "handled")
    /\ UNCHANGED <<srv, conns, srvUntouched>>

NextServer ==
    \E h \in Handlers :
        \/ Lookup(h)
        \/ Create(h)
        \/ Insert(h)
        \/ ServerDispatch(h)

SpecServer == InitServer /\ [][NextServer]_vars

\* C17: the server's connections map never holds more than MaxConnections
\* entries, whatever Initial packets the concurrently running handlers are
\* given.
C17_MapWithinMax == Cardinality(DOMAIN srv.connections) <= srv.MaxConnections

\* the map is full, one handler's new connection was turned away, and two
\* other handlers' packets, for different destination ids, were handled
C17_Witness ==
    /\ Cardinality(DOMAIN srv.connections) = srv.MaxConnections
    /\ \E h \in Handlers : handlers[h].ret = "full"
    /\ \E h, g \in Handlers :
          /\ h # g
          /\ handlers[h].ret = "handled"
          /\ handlers[g].ret = "handled"
          /\ handlers[h].p.dest # handlers[g].p.dest

\* C18: for one destination id all packets go to one Connection object: two
\* Initial packets with the same destination id, handled concurrently, are
\* dispatched to the same Connection.
C18_OneConnectionPerID ==
    \A x, y \in dispatched : x[1] = y[1] => x[2] = y[2]

(***************************************************************************)
(* SpecClient: handlePacket goroutines of one Client, one per datagram.    *)
(* The client's CryptoSetup is cs; once c.connection is set, state,        *)
(* packetNumberGenerator and fc are that Connection's.  Taking a guard and *)
(* the section it guards (which ends with the release) are separate steps, *)
(* so that the guards a goroutine holds can be read off every state.       *)
(***************************************************************************)
ClientTypes == 0..PacketTypeRetry

\* the guard taken at each point of the handlers, and whether it is taken
\* for writing (Lock) or for reading (RLock)
ClientGuard(at) ==
    CASE at = "irCrypto" -> <<"cryptoMutex", "W">>
      [] at = "irStore" -> <<"connectionMux", "W">>
      [] at = "hrCrypto" -> <<"cryptoMutex", "W">>
      [] at = "hrCheck" -> <<"cryptoMutex", "R">>
      [] at = "hrSet" -> <<"cryptoMutex", "W">>
      [] at = "orLookup" -> <<"connectionMux", "R">>
      [] at = "orValidate" -> <<"packetNumberMux", "W">>
      [] at = "orGetState" -> <<"stateMutex", "R">>
      [] at = "orCanSend" -> <<"flowMutex", "W">>
      [] at = "orDataSent" -> <<"flowMutex", "W">>
      [] at = "orCheck" -> <<"cryptoMutex", "R">>
      [] at = "orUpdate" -> <<"flowMutex", "W">>

\* sync.RWMutex: Lock waits for every holder, RLock for a writer
GuardFree(g) ==
    \A u \in ClientThreads :
        \A h \in cth[u].held : h[1] = g[1] => (g[2] = "R" /\ h[2] = "R")

\* a faulty switch with the Initial and the OneRTT case exchanged
ClientDispatchExchanged(type) ==
    IF type = PacketTypeOneRTT THEN "irCrypto"
    ELSE IF type = PacketTypeHandshake THEN "hrCrypto"
    ELSE IF type = PacketTypeInitial THEN "orLookup"
    ELSE "done"

\* handlePacket: where the switch on the packet type leads
ClientDispatch(type) ==
    IF type = PacketTypeInitial THEN "irCrypto"
    ELSE IF type = PacketTypeHandshake THEN "hrCrypto"
    ELSE IF type = PacketTypeOneRTT THEN "orLookup"
    ELSE "done"

InitClient ==
    /\ CodecIdle
    /\ FlowIdle
    /\ CryptoIdle
    /\ ConnIdle
    /\ IDIdle
    /\ ServerIdle
    /\ ClientIdle
    /\ SessionIdle
    /\ now = 0

\* readLoop: go c.handlePacket(buf[:n]); handlePacket: Unpack and the switch
ClientReceive(t) ==
    /\ cth[t].pc = "idle"
    /\ \A u \in ClientThreads : u < t => cth[u].pc # "idle"
    /\ \E type \in ClientTypes, pn \in {U64(0), U64(1)} :
          cth' = [cth EXCEPT ![t] =
                    [pc |-> ClientDispatch(type), in |-> FALSE, held |-> {},
                     type |-> type, pn |-> pn, ret |-> "none"]]
    /\ UNCHANGED <<client, codecVars, flowVars, cryptoVars, connVars, idVars,
                   serverVars, sessionVars, now>>

\* a goroutine takes the guard of the section it stands before
ClientAcquire(t) ==
    /\ cth[t].pc \notin {"idle", "done"}
    /\ ~cth[t].in
    /\ GuardFree(ClientGuard(cth[t].pc))
    /\ cth' = [cth EXCEPT ![t].in = TRUE,
                          ![t].held = @ \cup {ClientGuard(cth[t].pc)}]
    /\ UNCHANGED <<client, codecVars, flowVars, cryptoVars, connVars, idVars,
                   serverVars, sessionVars, now>>

\* c.connection.HandlePacket(p) for the packet of a call: validatePacketNumber
\* and the switch on the type.  A 1-RTT packet goes on to handleOneRTTPacket,
\* whose sections follow one by one; the handlers of the other types are
\* taken whole.  ret is what HandlePacket returns, "none" while it runs.
ClientHandlePacket(call) ==
    LET same == [cs |-> cs, fc |-> fc, client |-> client, keep |-> FALSE,
                 state |-> state]
        p == Packet(call.type, Version, call.pn, SmallPayload)
        a == Admit(p)
        whole(w) == [same EXCEPT !.cs = w.cs, !.state = w.state] @@
                    [pc |-> "done", ret |-> w.ret]
    IN  IF "ret" \in DOMAIN a THEN same @@ [pc |-> "done", ret |-> a.ret]
        ELSE IF a.pc = "oneGetState" THEN same @@ [pc |-> "orGetState", ret |-> "none"]
        ELSE IF a.pc = "initCrypto" THEN whole(HandleInitialWhole(p))
        ELSE whole(HandleHandshakeWhole(p))

\* what the section at a point does: where the goroutine goes on (a return
\* from Connection.HandlePacket is a return from Client.handleOneRTTPacket,
\* whose deferred RUnlock then runs), the values it leaves, and what
\* HandlePacket returns when the section ends it
ClientEffect(at) ==
    LET same == [cs |-> cs, fc |-> fc, client |-> client, keep |-> FALSE,
                 state |-> state, ret |-> "none"]
        crypto(level) == HandleCryptoFrame(cs, SmallPayload, level)
        size == U64(BLen(SmallPayload))
    IN  CASE at = "irCrypto" ->
               [same EXCEPT !.cs = crypto(LevelInitial).cs] @@
               [pc |-> IF crypto(LevelInitial).err THEN "done" ELSE "irStore"]
          [] at = "irStore" ->
               [same EXCEPT !.client = [connection |-> TRUE]] @@ [pc |-> "done"]
          [] at = "hrCrypto" ->
               [same EXCEPT !.cs = crypto(LevelHandshake).cs] @@
               [pc |-> IF crypto(LevelHandshake).err THEN "done" ELSE "hrCheck"]
          [] at = "hrCheck" ->
               same @@ [pc |-> IF HandshakeComplete(cs) THEN "hrSet" ELSE "done"]
          [] at = "hrSet" ->
               [same EXCEPT !.cs = SetHandshakeComplete(cs)] @@ [pc |-> "done"]
          [] at = "orLookup" ->
               IF client.connection
               THEN [same EXCEPT !.keep = TRUE] @@ [pc |-> "orValidate"]
               ELSE same @@ [pc |-> "done"]
          [] at = "orGetState" ->
               IF OneRTTStateOk(state) THEN same @@ [pc |-> "orCanSend"]
               ELSE [same EXCEPT !.ret = "NotEstablished"] @@ [pc |-> "done"]
          [] at = "orCanSend" ->
               IF CanSend(fc, size) THEN same @@ [pc |-> "orDataSent"]
               ELSE [same EXCEPT !.ret = "FlowControlExceeded"] @@ [pc |-> "done"]
          [] at = "orDataSent" ->
               IF BLen(SmallPayload) > 0
               THEN [same EXCEPT !.fc = OnDataSent(fc, size)] @@ [pc |-> "orCheck"]
               ELSE [same EXCEPT !.fc = OnDataSent(fc, size), !.ret = "nil"] @@
                    [pc |-> "done"]
          [] at = "orCheck" ->
               IF HandshakeComplete(cs) THEN same @@ [pc |-> "orUpdate"]
               ELSE [same EXCEPT !.ret = "HandshakeIncomplete"] @@ [pc |-> "done"]
          [] at = "orUpdate" ->
               [same EXCEPT !.fc = UpdateWindow(fc, size, now), !.ret = "nil"] @@
               [pc |-> "done"]

\* a goroutine runs the section it is in and releases the section's guard;
\* when its handler returns, every guard it still holds is released
ClientSection(t) ==
    /\ cth[t].in
    /\ LET at == cth[t].pc
           e == IF at = "orValidate" THEN ClientHandlePacket(cth[t])
                ELSE ClientEffect(at)
       IN  /\ cth' = [cth EXCEPT ![t].pc = e.pc,
                                 ![t].ret = e.ret,
                                 ![t].in = FALSE,
                                 ![t].held =
                                     IF e.pc = "done" THEN {}
                                     ELSE IF e.keep THEN @
                                     ELSE @ \ {ClientGuard(at)}]
           /\ cs' = e.cs
           /\ fc' = e.fc
           /\ client' = e.client
           /\ state' = e.state
    /\ UNCHANGED <<codecVars, sendCheck, flowCalls, zeroTry, accepted, cryptoCalls,
                   cryptoOp, packetNumberGenerator, closeOnce, closeChan, closeRuns,
                   pc, cur, ret, wrote, hsAtCall, pnSeen, idVars, serverVars,
                   sessionVars, now>>

NextClient ==
    \E t \in ClientThreads :
        \/ ClientReceive(t)
        \/ ClientAcquire(t)
        \/ ClientSection(t)

SpecClient == InitClient /\ [][NextClient]_vars

\* C39: the client forwards only OneRTT packets to its Connection's
\* HandlePacket (Initial and Handshake responses go to the CryptoSetup
\* directly), so in every reachable client state the Connection's state is
\* Initial and every OneRTT packet the client receives and hands to the
\* Connection is rejected by it.
C39_ClientConnectionStaysInitial ==
    /\ state = StateInitial
    /\ \A t \in ClientThreads :
          /\ cth[t].pc \in {"orValidate", "orGetState"} =>
                cth[t].type = PacketTypeOneRTT
          /\ cth[t].pc \notin {"orCanSend", "orDataSent", "orCheck", "orUpdate"}
          /\ cth[t].ret \in {"none", "InvalidPacketNumber", "NotEstablished"}
          /\ cth[t].ret # "none" => cth[t].type = PacketTypeOneRTT

\* after an Initial response set c.connection, a OneRTT packet with
\* admissible packet number 1 was refused for the state and one with packet
\* number 0 for its number
C39_Witness ==
    /\ client.connection
    /\ \E t, u \in ClientThreads :
          /\ cth[t].type = PacketTypeOneRTT
          /\ cth[t].pn = U64(1)
          /\ cth[t].ret = "NotEstablished"
          /\ cth[u].type = PacketTypeOneRTT
          /\ cth[u].ret = "InvalidPacketNumber"

\* C25: at every point of every execution of the packet handlers a goroutine
\* holds at most one of the guards (connection-map lock, state lock,
\* packet-number lock, CryptoSetup lock, FlowController lock).
C25_OneGuardAtATime ==
    \A t \in ClientThreads : Cardinality(cth[t].held) <= 1

(***************************************************************************)
(* SpecSessions: calls of one SessionManager while time passes.  Every     *)
(* method runs under the manager's mutex.  A ticket id is 16 bytes of      *)
(* crypto/rand: CreateTicket draws an id that no ticket has had.           *)
(***************************************************************************)
\* bound: the last hour of the clock
MaxSessionTime == 25

SessionKeys == {BRep(9, 32)}

\* an id no ticket was made for
UnknownID == BRep(3, 16)

InitSessions ==
    /\ CodecIdle
    /\ FlowIdle
    /\ CryptoIdle
    /\ ConnIdle
    /\ IDIdle
    /\ ServerIdle
    /\ ClientIdle
    /\ SessionIdle
    /\ now = 0

sessionUntouched ==
    <<codecVars, flowVars, cryptoVars, connVars, idVars, serverVars, clientVars>>

\* ticket, err := sm.CreateTicket(); rand.Read may fail
CallCreateTicket ==
    /\ \E id \in SessionIDs, key \in SessionKeys, ok \in BOOLEAN :
          /\ issued[id] = NoTicket
          /\ IF ok
             THEN /\ sm' = CreateTicket(sm, id, key, now)
                  /\ issued' = [issued EXCEPT ![id] = NewTicket(sm, id, key, now)]
                  /\ smOp' = [op |-> "CreateTicket", id |-> id, at |-> now,
                              got |-> NewTicket(sm, id, key, now)]
             ELSE /\ smOp' = [op |-> "CreateTicket", id |-> id, at |-> now,
                              got |-> NilTicket]
                  /\ UNCHANGED <<sm, issued>>
    /\ UNCHANGED <<sessionUntouched, now>>

\* ticket := sm.GetTicket(id)
CallGetTicket ==
    /\ \E id \in SessionIDs \cup {UnknownID} :
          smOp' = [op |-> "GetTicket", id |-> id, at |-> now,
                   got |-> GetTicket(sm, id, now)]
    /\ UNCHANGED <<sm, issued, sessionUntouched, now>>

\* sm.RemoveExpiredTickets()
CallRemoveExpiredTickets ==
    /\ sm' = RemoveExpiredTickets(sm, now)
    /\ smOp' = [op |-> "RemoveExpiredTickets", id |-> <<>>, at |-> now,
                got |-> NilTicket]
    /\ UNCHANGED <<issued, sessionUntouched, now>>

\* time passes: an hour, or a whole ticket life
SessionTick ==
    /\ \E d \in {1, TicketValidity} :
          /\ now + d <= MaxSessionTime
          /\ now' = now + d
    /\ UNCHANGED <<sm, issued, smOp, sessionUntouched>>

NextSessions ==
    \/ CallCreateTicket
    \/ CallGetTicket
    \/ CallRemoveExpiredTickets
    \/ SessionTick

SpecSessions == InitSessions /\ [][NextSessions]_vars

\* C26: GetTicket(id) returns a ticket exactly when a ticket with that id was
\* created and the time of the call is not after its expiresAt, which is the
\* time of creation plus 24 hours, and then it returns that ticket; this is so
\* whether or not RemoveExpiredTickets has run; and a ticket whose expiry
\* has not passed is still stored, whatever RemoveExpiredTickets calls
\* there were.
C26_TicketUntilExpiry ==
    /\ smOp.op = "GetTicket" =>
          LET made == smOp.id \in SessionIDs /\ issued[smOp.id] # NoTicket
              live == made /\ smOp.at <= issued[smOp.id].CreatedAt + TicketValidity
          IN  /\ smOp.got # NilTicket <=> live
              /\ live => smOp.got = issued[smOp.id]
    /\ \A id \in SessionIDs :
          (issued[id] # NoTicket /\ now <= issued[id].CreatedAt + TicketValidity) =>
             /\ id \in DOMAIN sm.tickets
             /\ sm.tickets[id] = issued[id]
    /\ \A id \in DOMAIN sm.tickets : sm.tickets[id] = issued[id]

\* GetTicket has returned nil for an expired ticket that is still stored,
\* while another ticket, at the very hour of its expiry, is still stored
C26_Witness ==
    /\ smOp.op = "GetTicket"
    /\ smOp.got = NilTicket
    /\ smOp.id \in DOMAIN sm.tickets
    /\ \E id \in DOMAIN sm.tickets : sm.tickets[id].ExpiresAt = now

(***************************************************************************)
(* SpecHello: clients send their Initial packet to one server.  Each       *)
(* client builds the packet of sendInitialPacket and packs it; the server's *)
(* handlePacket unpacks the datagram, finds or creates the Connection for  *)
(* its destination id and hands it the packet.  The datagrams are handled  *)
(* one after another and all carry the same destination id, so the         *)
(* connection variables describe the one Connection the server keeps for   *)
(* that id.                                                                *)
(***************************************************************************)
\* the secrets GetCryptoData(LevelInitial) can hand the client: 32 bytes
SecretSamples == {PayloadOf(32), [i \in 1..32 |-> 0]}

\* a []byte of the codec as a run-length encoded byte string
RECURSIVE RLEOf(_)
RLEOf(bytes) ==
    IF bytes = <<>> THEN <<>>
    ELSE BCat(BRep(Head(bytes), 1), RLEOf(Tail(bytes)))

\* the *packet.Packet that Unpack returned, as HandlePacket reads it
ConnPacketOf(p) ==
    [Type |-> p.Header.Type, Version |-> p.Header.Version,
     PacketNumber |-> p.Header.PacketNumber, Payload |-> RLEOf(p.Payload)]

\* sendInitialPacket: the packet for destination id dest with this payload
InitialPacketFor(dest, payload) ==
    [Header |-> [Type |-> PacketTypeInitial, Version |-> <<0, Version>>,
                 DestConnID |-> dest, SrcConnID |-> <<>>,
                 PacketNumber |-> U64(0)],
     Payload |-> payload]

InitHello ==
    /\ \E dest \in ConnIDSamples : pkt = InitialPacketFor(dest, <<>>)
    /\ wire = <<>>
    /\ damage = "none"
    /\ decoded = NoResult
    /\ phase = "hello"
    /\ FlowIdle
    /\ \E cfg \in AllConfigs : cs = NewCryptoSetup(cfg)
    /\ zeroTry = [called |-> FALSE]
    /\ accepted = [id \in TicketIDs |-> -1]
    /\ cryptoCalls = 0
    /\ cryptoOp = [op |-> "none"]
    /\ ConnIdle
    /\ IDIdle
    /\ \E n \in -1..MaxConfigConnections : srv = NewServer(n)
    /\ conns = <<>>
    /\ dispatched = {}
    /\ handlers = [h \in Handlers |-> NoHandler]
    /\ ClientIdle
    /\ SessionIdle
    /\ now = 0

helloUntouched ==
    <<damage, flowVars, zeroTry, accepted, cryptoCalls, cryptoOp,
      packetNumberGenerator, closeOnce, closeChan, closeRuns, cur, wrote, hsAtCall,
      idVars, dispatched, handlers, clientVars, sessionVars, now>>

\* a datagram is still to be handed to the Connection
HelloMayBegin == \E t \in Threads : pc[t] = "idle"

\* Client.Connect: sendInitialPacket builds the packet with packet number 0
\* and the payload GetCryptoData(LevelInitial) of the client's own
\* CryptoSetup gives, packs it and writes it to the socket
ClientSendInitial ==
    /\ phase \in {"hello", "handled", "dropped", "clientPanic"}
    /\ HelloMayBegin
    /\ \E cfg \in AllConfigs, r \in RandSamples, secret \in SecretSamples :
          LET out == GetCryptoData(NewCryptoSetup(cfg), LevelInitial, r)
              p == InitialPacketFor(pkt.Header.DestConnID,
                                    IF out.kind = "key" THEN secret ELSE <<>>)
          IN  IF out = CryptoPanic
              THEN /\ phase' = "clientPanic"
                   /\ UNCHANGED <<pkt, wire>>
              ELSE /\ pkt' = p
                   /\ wire' = PacketPack(p).bytes
                   /\ phase' = IF PacketPack(p).ok THEN "sent" ELSE "clientError"
    /\ decoded' = NoResult
    /\ UNCHANGED <<srv, conns, state, cs, pc, ret, pnSeen, helloUntouched>>

\* Server.handlePacket up to the call of conn.HandlePacket: Unpack, the
\* lookup, and for an unknown destination id of an Initial packet the new
\* Connection and its store; idOk says whether GenerateConnectionID succeeds
ServerReceive ==
    /\ phase = "sent"
    /\ \E idOk \in BOOLEAN :
          LET d == Unpack(wire)
              key == d.packet.Header.DestConnID
              conn == LookupConn(srv, key)
          IN  /\ decoded' = d
              /\ IF d.kind # "ok"
                 THEN /\ phase' = "dropped"
                      /\ UNCHANGED <<srv, conns>>
                 ELSE IF conn = 0 /\ d.packet.Header.Type = PacketTypeInitial
                 THEN IF ~idOk \/ ServerFull(srv)
                      THEN /\ phase' = "dropped"
                           /\ UNCHANGED <<srv, conns>>
                      ELSE /\ conns' = Append(conns, key)
                           /\ srv' = StoreConn(srv, key, Len(conns) + 1)
                           /\ phase' = "dispatch"
                 ELSE /\ phase' = IF conn = 0 THEN "dropped" ELSE "dispatch"
                      /\ UNCHANGED <<srv, conns>>
    /\ UNCHANGED <<pkt, wire, state, cs, pc, ret, pnSeen, helloUntouched>>

\* Server.handlePacket: conn.HandlePacket(p)
ServerHandle ==
    /\ phase = "dispatch"
    /\ \E t \in Threads :
          /\ MayBegin(t)
          /\ LET p == ConnPacketOf(decoded.packet)
                 e == HandleInitialWhole(p)
             IN  /\ pnSeen' = [pnSeen EXCEPT ![t] = p.PacketNumber]
                 /\ ret' = [ret EXCEPT ![t] = e.ret]
                 /\ pc' = [pc EXCEPT ![t] = "done"]
                 /\ cs' = e.cs
                 /\ state' = e.state
    /\ phase' = "handled"
    /\ UNCHANGED <<pkt, wire, decoded, srv, conns, helloUntouched>>

NextHello == ClientSendInitial \/ ServerReceive \/ ServerHandle

SpecHello == InitHello /\ [][NextHello]_vars

\* C38: a newly created Connection (counter 0) rejects packet number 0; the
\* client sends its Initial packet with packet number 0, so the Connection
\* the server creates for that packet rejects it, its state stays Initial
\* and its handshake buffer stays empty.
C38_FirstInitialRejected ==
    /\ packetNumberGenerator = U64(0) => ~validatePacketNumber(U64(0))
    /\ phase \in {"sent", "dispatch", "handled"} => pkt.Header.PacketNumber = U64(0)
    /\ phase \in {"dispatch", "handled"} =>
          /\ decoded = UnpackOk(pkt)
          /\ LookupConn(srv, pkt.Header.DestConnID) # 0
    /\ \A t \in Threads :
          pc[t] = "done" => (pnSeen[t] = U64(0) /\ ret[t] = "InvalidPacketNumber")
    /\ state = StateInitial
    /\ cs.handshakeData = <<>>

\* the server created the Connection for a client's Initial packet that
\* carries a 32-byte secret, handed it the packet, and the packet was refused
C38_Witness ==
    /\ phase = "handled"
    /\ Len(pkt.Payload) = 32
    /\ Len(conns) = 1
    /\ ret[1] = "InvalidPacketNumber"
    /\ ret[2] = "none"

(***************************************************************************)
(* SpecLoop: the accept loop of the server (the read loop of the client is *)
(* the same code).  buf is made once, before the loop; every ReadFromUDP   *)
(* writes the datagram at the start of buf, and the handler is started     *)
(* with the slice buf[:n], which shares buf's memory.  wire is buf, pkt    *)
(* the packet whose bytes are arriving, and a handler's record holds the   *)
(* datagram it was started for (p), its n (conn) and what its Unpack       *)
(* returned (ret).  The loop's write and a handler's read of buf are not    *)
(* ordered by any guard: the write is taken in two parts, so that a read   *)
(* can see the old bytes, the new bytes, or some of each.                  *)
(***************************************************************************)
LoopPackets ==
    {InitialPacketFor(IDOf(8, 0), PayloadOf(3)),
     InitialPacketFor(IDOf(8, 1), <<>>),
     [Header |-> [Type |-> PacketTypeOneRTT, Version |-> <<0, Version>>,
                  DestConnID |-> IDOf(8, 2), SrcConnID |-> IDOf(1, 100),
                  PacketNumber |-> U64(1)],
      Payload |-> PayloadOf(3)]}

\* buf after bytes were written at its start
Overwrite(buf, bytes) ==
    IF Len(bytes) >= Len(buf) THEN bytes
    ELSE bytes \o SubSeq(buf, Len(bytes) + 1, Len(buf))

\* the part of a datagram that the first part of the write puts into buf
FirstPart(bytes) == SubSeq(bytes, 1, Len(bytes) \div 2)

InitLoop ==
    /\ pkt \in LoopPackets
    /\ wire = <<>>
    /\ damage = "none"
    /\ decoded = NoResult
    /\ phase = "loop"
    /\ FlowIdle
    /\ CryptoIdle
    /\ ConnIdle
    /\ IDIdle
    /\ ServerIdle
    /\ ClientIdle
    /\ SessionIdle
    /\ now = 0

loopUntouched ==
    <<damage, decoded, flowVars, cryptoVars, connVars, idVars, srv, conns, dispatched,
      clientVars, sessionVars, now>>

\* ReadFromUDP begins to write the next datagram into buf
LoopReceive ==
    /\ phase = "loop"
    /\ \E h \in Handlers : handlers[h].pc = "idle"
    /\ \E p \in LoopPackets :
          /\ pkt' = p
          /\ wire' = Overwrite(wire, FirstPart(PacketPack(p).bytes))
    /\ phase' = "copying"
    /\ UNCHANGED <<handlers, loopUntouched>>

\* ReadFromUDP returns n, and the loop runs go handlePacket(buf[:n], ...)
LoopSpawn ==
    /\ phase = "copying"
    /\ \E h \in Handlers :
          /\ HandlerMayBegin(h)
          /\ handlers' = [handlers EXCEPT ![h] =
                [pc |-> "spawned", p |-> PacketPack(pkt).bytes,
                 conn |-> Len(PacketPack(pkt).bytes), ret |-> NoResult]]
    /\ wire' = Overwrite(wire, PacketPack(pkt).bytes)
    /\ phase' = "loop"
    /\ UNCHANGED <<pkt, loopUntouched>>

\* handlePacket: packet.Unpack(data), data being buf[:n] as it is now
HandlerUnpack(h) ==
    /\ handlers[h].pc = "spawned"
    /\ handlers' = [handlers EXCEPT
          ![h].pc = "done",
          ![h].ret = Unpack(SubSeq(wire, 1, handlers[h].conn))]
    /\ UNCHANGED <<pkt, wire, phase, loopUntouched>>

NextLoop ==
    \/ LoopReceive
    \/ LoopSpawn
    \/ \E h \in Handlers : HandlerUnpack(h)

SpecLoop == InitLoop /\ [][NextLoop]_vars

\* C40: each packet handler started by the accept loop or the read loop
\* decodes exactly the bytes of the datagram it was started for, even when
\* the loop receives the next datagram into its read buffer while that
\* handler is still running.
C40_HandlerSeesOwnDatagram ==
    \A h \in Handlers :
        handlers[h].pc = "done" => handlers[h].ret = Unpack(handlers[h].p)

====
